---- MODULE Spec2Model ----
(***************************************************************************)
(* A model of simple-json-db: the process-wide per-path lock manager       *)
(* (locks.go), the atomic write protocol (atomic_write.go), the gzip       *)
(* framing (io_gzip.go) and the collection operations built on them        *)
(* (collection.go), together with the older Create/Get of simplejsondb.go. *)
(***************************************************************************)
EXTENDS Integers, Sequences, FiniteSets, TLC

\* ------------------------------------------------------------------ bounds
NumProcs == 2
Procs == 1..NumProcs
Keys == {1, 2}

\* ------------------------------------------------------- program constants
LOCK_READ == 0
LOCK_WRITE == 1
LOCK_READ_WRITE == 2
\* every LockType value the callers pass; 3 stands for a value outside the enum
LockTypes == {LOCK_READ, LOCK_WRITE, LOCK_READ_WRITE, 3}
Ext == ".json"
GZipExt == ".json.gz"

\* A file name in the collection directory: id + ext.  tmp marks the names
\* os.CreateTemp makes from the pattern ".tmp-*.json".
RecName(id, ext) == [tmp |-> FALSE, id |-> id, ext |-> ext]
JsonPaths == {RecName(k, Ext) : k \in Keys}

VARIABLES
    locks,    \* locks.go: map path -> *lockEntry (here: the entry's address)
    heap,     \* the lockEntry objects: address -> [refs, w, r]
    fatal,    \* the Go runtime stopped the process (unlock of an unlocked RWMutex)
    stray,    \* some Unlock without a matching Lock got past the table lookup
    locksMu,  \* locks.go, locksMu: the caller inside the table mutex (0: free)
    pc,       \* per caller: where it is
    ret,      \* per caller: where Lock/Unlock/writeAtomic returns to
    lpath,    \* per caller: path argument of its Lock/Unlock
    ltype,    \* per caller: LockType argument of its Lock/Unlock
    owns,     \* per caller: its Unlock call matches a Lock it made
    le,       \* per caller: the local *lockEntry of Lock/Unlock (0: none)
    files,    \* the collection directory: file name -> content
    wa,       \* per caller: the frame of its writeAtomic call
    op,       \* per caller: the frame of its collection operation
    useGzip,  \* the collection's default compression flag (c.useGzip)
    recModes, \* simplejsondb.go, c.recModes: id -> the LockMode of the last LockID
    recLocks, \* simplejsondb.go, c.recLocks: id -> the id's RWMutex, [w, r]
    recStates, \* simplejsondb.go, c.recStates: id -> the id's LockState, [R, W]
    order     \* history: path -> payload of the Create that last took its write lock

vars == <<locks, heap, fatal, stray, locksMu, pc, ret, lpath, ltype, owns, le, files, wa, op,
          useGzip, recModes, recLocks, recStates, order>>
\* the fields of the collection struct
collVars == <<useGzip, recModes, recLocks, recStates>>
lockVars == <<locks, heap, fatal, stray, locksMu>>
callVars == <<lpath, ltype, owns, le>>
ioVars == <<files, wa, op>>

TmpName(n) == [tmp |-> TRUE, id |-> n, ext |-> Ext]
TmpNames == {TmpName(n) : n \in Procs}
NoTmp == TmpName(0)
\* the payloads callers write: complete documents of the same length, so that
\* no payload is a prefix of another
Payloads == {<<1, 2>>, <<2, 1>>}
NoWrite == [final |-> RecName(1, Ext), data |-> <<>>, tmp |-> NoTmp, err |-> FALSE,
            open |-> FALSE, synced |-> FALSE]
NoOp == [name |-> "none"]

\* ------------------------------------------------------------ lock manager
NoEntry == 0
\* locksMu when no caller is inside it
NoProc == 0
MaxAddr == 2 * Cardinality(Keys) + NumProcs + 1
\* the address a new lockEntry gets: the lowest one not in use
NewAddr(h) == CHOOSE a \in 1..MaxAddr :
                 a \notin DOMAIN h /\ \A b \in 1..MaxAddr : b \notin DOMAIN h => a <= b

\* entries nobody refers to any more are garbage-collected
Collect(h, l, ptrs) ==
    LET live == {l[p] : p \in DOMAIN l} \cup {ptrs[q] : q \in Procs}
    IN  [a \in DOMAIN h \cap live |-> h[a]]

lockEntry(refs) == [refs |-> refs, w |-> 0, r |-> 0]

\* getOrCreateLock with one lock for the whole table: a path that is not in
\* the table is pointed at an entry some other path already has
getOrCreateLockShared(l, h, path) ==
    IF path \in DOMAIN l
    THEN [locks |-> l,
          heap |-> [h EXCEPT ![l[path]].refs = @ + 1],
          le |-> l[path]]
    ELSE IF DOMAIN l # {}
    THEN LET a == l[CHOOSE q \in DOMAIN l : TRUE]
         IN  [locks |-> [q \in DOMAIN l \cup {path} |-> IF q = path THEN a ELSE l[q]],
              heap |-> [h EXCEPT ![a].refs = @ + 1],
              le |-> a]
    ELSE [locks |-> [q \in {path} |-> NewAddr(h)],
          heap |-> [a \in DOMAIN h \cup {NewAddr(h)} |->
                      IF a = NewAddr(h) THEN lockEntry(1) ELSE h[a]],
          le |-> NewAddr(h)]

\* getOrCreateLock that makes a new entry for a path that already has one
getOrCreateLockFresh(l, h, path) ==
    [locks |-> [q \in DOMAIN l \cup {path} |-> IF q = path THEN NewAddr(h) ELSE l[q]],
     heap |-> [a \in DOMAIN h \cup {NewAddr(h)} |->
                 IF a = NewAddr(h) THEN lockEntry(1) ELSE h[a]],
     le |-> NewAddr(h)]

\* getOrCreateLock: the table and the entries after the call, and the entry
\* it returns; an existing entry is reused with refs + 1, a missing one is
\* created with refs = 1
getOrCreateLock(l, h, path) ==
    IF path \in DOMAIN l
    THEN [locks |-> l,
          heap |-> [h EXCEPT ![l[path]].refs = @ + 1],
          le |-> l[path]]
    ELSE [locks |-> [q \in DOMAIN l \cup {path} |-> IF q = path THEN NewAddr(h) ELSE l[q]],
          heap |-> [a \in DOMAIN h \cup {NewAddr(h)} |->
                      IF a = NewAddr(h) THEN lockEntry(1) ELSE h[a]],
          le |-> NewAddr(h)]

\* a Lock that takes LOCK_READ_WRITE as a shared lock
IsExclusiveWriteOnly(t) == t = LOCK_WRITE

\* Lock and Unlock, the switch on t: LOCK_WRITE and LOCK_READ_WRITE are
\* exclusive, LOCK_READ and any other value are shared
IsExclusive(t) == t \in {LOCK_WRITE, LOCK_READ_WRITE}

\* sync.RWMutex as the lock manager uses it
CanRLock(e) == e.w = 0
\* a Lock that never waits
CanLockAlways(e) == TRUE
CanLock(e) == e.w = 0 /\ e.r = 0
CanAcquire(e, t) == IF IsExclusive(t) THEN CanLock(e) ELSE CanRLock(e)
Acquire(e, t) == IF IsExclusive(t) THEN [e EXCEPT !.w = 1] ELSE [e EXCEPT !.r = @ + 1]
CanRelease(e, t) == IF IsExclusive(t) THEN e.w = 1 ELSE e.r > 0
Release(e, t) == IF IsExclusive(t) THEN [e EXCEPT !.w = 0] ELSE [e EXCEPT !.r = @ - 1]

\* Unlock returns: its arguments go out of scope
Return(p) ==
    /\ lpath' = [lpath EXCEPT ![p] = RecName(1, Ext)]
    /\ ltype' = [ltype EXCEPT ![p] = LOCK_READ]
    /\ owns' = [owns EXCEPT ![p] = FALSE]

\* Lock, line 20: le := getOrCreateLock(path)
LockGet(p) ==
    /\ ~fatal
    /\ UNCHANGED <<collVars, order, ioVars, locksMu>>
    /\ locksMu = NoProc
    /\ pc[p] = "Lock.get"
    /\ LET g == getOrCreateLock(locks, heap, lpath[p])
       IN  /\ locks' = g.locks
           /\ heap' = g.heap
           /\ le' = [le EXCEPT ![p] = g.le]
    /\ pc' = [pc EXCEPT ![p] = "Lock.acq"]
    /\ UNCHANGED <<fatal, stray, ret, lpath, ltype, owns>>

\* Lock, lines 21-28: le.mu.RLock() or le.mu.Lock(); blocks until compatible
LockAcquire(p) ==
    /\ ~fatal
    /\ UNCHANGED <<collVars, order, ioVars, locksMu>>
    /\ pc[p] = "Lock.acq"
    /\ CanAcquire(heap[le[p]], ltype[p])
    /\ LET le2 == [le EXCEPT ![p] = NoEntry]
       IN  /\ le' = le2
           /\ heap' = Collect([heap EXCEPT ![le[p]] = Acquire(@, ltype[p])], locks, le2)
    /\ pc' = [pc EXCEPT ![p] = ret[p]]
    /\ UNCHANGED <<locks, fatal, stray, ret, lpath, ltype, owns>>

\* Unlock whose lookup creates the entry it misses
UnlockLookupCreates(p) ==
    /\ ~fatal
    /\ UNCHANGED <<collVars, order, ioVars, locksMu>>
    /\ locksMu = NoProc
    /\ pc[p] = "Unlock.lookup"
    /\ LET g == getOrCreateLock(locks, heap, lpath[p])
       IN  /\ locks' = g.locks
           /\ heap' = g.heap
           /\ le' = [le EXCEPT ![p] = g.le]
    /\ pc' = [pc EXCEPT ![p] = "Unlock.rel"]
    /\ stray' = (stray \/ ~owns[p])
    /\ UNCHANGED <<fatal, ret, lpath, ltype, owns>>

\* Unlock, lines 35-40: look the entry up; absent: return
UnlockLookup(p) ==
    /\ ~fatal
    /\ UNCHANGED <<collVars, order, ioVars, locksMu>>
    /\ locksMu = NoProc
    /\ pc[p] = "Unlock.lookup"
    /\ IF lpath[p] \in DOMAIN locks
       THEN /\ le' = [le EXCEPT ![p] = locks[lpath[p]]]
            /\ pc' = [pc EXCEPT ![p] = "Unlock.rel"]
            /\ stray' = (stray \/ ~owns[p])
            /\ UNCHANGED <<lpath, ltype, owns>>
       ELSE /\ pc' = [pc EXCEPT ![p] = ret[p]]
            /\ Return(p)
            /\ UNCHANGED <<le, stray>>
    /\ UNCHANGED <<locks, heap, fatal, ret>>

\* Unlock, lines 42-49: le.mu.RUnlock() or le.mu.Unlock(); releasing a mutex
\* that is not locked that way is a fatal error of the Go runtime
UnlockRelease(p) ==
    /\ ~fatal
    /\ UNCHANGED <<collVars, order, ioVars, locksMu>>
    /\ pc[p] = "Unlock.rel"
    /\ IF CanRelease(heap[le[p]], ltype[p])
       THEN /\ heap' = [heap EXCEPT ![le[p]] = Release(@, ltype[p])]
            /\ pc' = [pc EXCEPT ![p] = "Unlock.dec"]
            /\ UNCHANGED fatal
       ELSE /\ fatal' = TRUE
            /\ UNCHANGED <<heap, pc>>
    /\ UNCHANGED <<locks, stray, ret, lpath, ltype, owns, le>>

\* Unlock that deletes the entry whatever its count
UnlockTableAlways(l, h, path, a) == [q \in DOMAIN l \ {path} |-> l[q]]

\* Unlock that never deletes the entry
UnlockTableNever(l, h, path, a) == l

\* Unlock, lines 52-57: the table after le.refs-- and the delete
UnlockTable(l, h, path, a) ==
    IF h[a].refs - 1 = 0 THEN [q \in DOMAIN l \ {path} |-> l[q]] ELSE l

UnlockDecrement(p) ==
    /\ ~fatal
    /\ UNCHANGED <<collVars, order, ioVars, locksMu>>
    /\ locksMu = NoProc
    /\ pc[p] = "Unlock.dec"
    /\ LET h2 == [heap EXCEPT ![le[p]].refs = @ - 1]
           l2 == UnlockTable(locks, heap, lpath[p], le[p])
           le2 == [le EXCEPT ![p] = NoEntry]
       IN  /\ locks' = l2
           /\ le' = le2
           /\ heap' = Collect(h2, l2, le2)
    /\ pc' = [pc EXCEPT ![p] = ret[p]]
    /\ Return(p)
    /\ UNCHANGED <<fatal, stray, ret>>

\* --------------------------------------------- callers of the lock manager
\* A caller takes a lock ...
CallLock(p) ==
    /\ ~fatal
    /\ UNCHANGED <<collVars, order, ioVars, locksMu>>
    /\ pc[p] = "idle"
    /\ \E path \in JsonPaths, t \in LockTypes :
          /\ lpath' = [lpath EXCEPT ![p] = path]
          /\ ltype' = [ltype EXCEPT ![p] = t]
    /\ pc' = [pc EXCEPT ![p] = "Lock.get"]
    /\ ret' = [ret EXCEPT ![p] = "held"]
    /\ owns' = [owns EXCEPT ![p] = TRUE]
    /\ UNCHANGED <<locks, heap, fatal, stray, le>>

\* ... and gives it back with the same path and type
CallUnlock(p) ==
    /\ ~fatal
    /\ UNCHANGED <<collVars, order, ioVars, locksMu>>
    /\ pc[p] = "held"
    /\ pc' = [pc EXCEPT ![p] = "Unlock.lookup"]
    /\ ret' = [ret EXCEPT ![p] = "idle"]
    /\ UNCHANGED <<locks, heap, fatal, stray, lpath, ltype, owns, le>>

\* A caller that holds nothing calls Unlock
CallStrayUnlock(p) ==
    /\ ~fatal
    /\ UNCHANGED <<collVars, order, ioVars, locksMu>>
    /\ pc[p] = "idle"
    /\ \E path \in JsonPaths, t \in LockTypes :
          /\ lpath' = [lpath EXCEPT ![p] = path]
          /\ ltype' = [ltype EXCEPT ![p] = t]
    /\ pc' = [pc EXCEPT ![p] = "Unlock.lookup"]
    /\ ret' = [ret EXCEPT ![p] = "idle"]
    /\ owns' = [owns EXCEPT ![p] = FALSE]
    /\ UNCHANGED <<locks, heap, fatal, stray, le>>

InitLock ==
    /\ locks = <<>>
    /\ heap = <<>>
    /\ fatal = FALSE
    /\ stray = FALSE
    /\ locksMu = NoProc
    /\ pc = [p \in Procs |-> "idle"]
    /\ ret = [p \in Procs |-> "idle"]
    /\ lpath = [p \in Procs |-> RecName(1, Ext)]
    /\ ltype = [p \in Procs |-> LOCK_READ]
    /\ owns = [p \in Procs |-> FALSE]
    /\ le = [p \in Procs |-> NoEntry]
    /\ files = <<>>
    /\ wa = [p \in Procs |-> NoWrite]
    /\ op = [p \in Procs |-> NoOp]
    /\ useGzip = FALSE
    /\ recModes = <<>>
    /\ recLocks = <<>>
    /\ recStates = <<>>
    /\ order = <<>>

NextLock ==
    \E p \in Procs :
        \/ CallLock(p)
        \/ LockGet(p)
        \/ LockAcquire(p)
        \/ CallUnlock(p)
        \/ CallStrayUnlock(p)
        \/ UnlockLookup(p)
        \/ UnlockRelease(p)
        \/ UnlockDecrement(p)

SpecLock == InitLock /\ [][NextLock]_vars

\* ------------------------------------------------------------- file system
Exists(name) == name \in DOMAIN files
\* os.Remove, the error ignored: the directory without the file
Remove(f, name) == [n \in DOMAIN f \ {name} |-> f[n]]
\* one more byte of data reaches the file
WriteFile(f, name, content) == [n \in DOMAIN f \cup {name} |-> IF n = name THEN content ELSE f[n]]
\* os.Rename: atomically replaces new by old
Rename(f, old, new) == Remove(WriteFile(f, new, f[old]), old)

\* os.CreateTemp: a name that no file has and no call in flight was given
\* (temp names are interchangeable: the lowest such name)
InFlightTmp == {wa[q].tmp : q \in Procs}
FreshTmp == CHOOSE t \in TmpNames :
               /\ ~Exists(t) /\ t \notin InFlightTmp
               /\ \A u \in TmpNames : (~Exists(u) /\ u \notin InFlightTmp) => t.id <= u.id

\* ------------------------------------------------------- writeAtomic steps
\* a caller enters writeAtomic(dir, final, data)
WriteAtomicFrame(final, data) ==
    [final |-> final, data |-> data, tmp |-> NoTmp, err |-> FALSE, open |-> FALSE, synced |-> FALSE]

\* writeAtomic that opens the final path itself instead of a temp file
WriteAtomicCreateInPlace(p) ==
    /\ pc[p] = "wa.create"
    /\ wa' = [wa EXCEPT ![p].tmp = wa[p].final, ![p].open = TRUE]
    /\ files' = WriteFile(files, wa[p].final, <<>>)
    /\ pc' = [pc EXCEPT ![p] = "wa.write"]
    /\ UNCHANGED <<collVars, order, lockVars, callVars, ret, op>>

\* lines 11-20: MkdirAll, CreateTemp, defer Remove(tmpName)
WriteAtomicCreateTemp(p) ==
    /\ pc[p] = "wa.create"
    /\ wa' = [wa EXCEPT ![p].tmp = FreshTmp, ![p].open = TRUE]
    /\ files' = WriteFile(files, FreshTmp, <<>>)
    /\ pc' = [pc EXCEPT ![p] = "wa.write"]
    /\ UNCHANGED <<collVars, order, lockVars, callVars, ret, op>>

\* lines 22-25: tmp.Write(data); the bytes reach the temp file one by one
WriteAtomicWrite(p) ==
    /\ pc[p] = "wa.write"
    /\ LET n == Len(files[wa[p].tmp])
       IN  IF n < Len(wa[p].data)
           THEN /\ files' = WriteFile(files, wa[p].tmp, Append(files[wa[p].tmp], wa[p].data[n + 1]))
                /\ pc' = [pc EXCEPT ![p] = IF n + 1 = Len(wa[p].data) THEN "wa.sync" ELSE "wa.write"]
           ELSE /\ pc' = [pc EXCEPT ![p] = "wa.sync"]
                /\ UNCHANGED files
    /\ UNCHANGED <<collVars, order, lockVars, callVars, ret, wa, op>>

\* lines 26-29: tmp.Sync()
WriteAtomicSync(p) ==
    /\ pc[p] = "wa.sync"
    /\ wa' = [wa EXCEPT ![p].synced = TRUE]
    /\ pc' = [pc EXCEPT ![p] = "wa.close"]
    /\ UNCHANGED <<collVars, order, lockVars, callVars, ret, files, op>>

\* lines 30-32: tmp.Close()
WriteAtomicClose(p) ==
    /\ pc[p] = "wa.close"
    /\ wa' = [wa EXCEPT ![p].open = FALSE]
    /\ pc' = [pc EXCEPT ![p] = "wa.rename"]
    /\ UNCHANGED <<collVars, order, lockVars, callVars, ret, files, op>>

\* lines 34-50: os.Rename(tmpName, final), then the best-effort directory sync
WriteAtomicRename(p) ==
    /\ pc[p] = "wa.rename"
    /\ files' = Rename(files, wa[p].tmp, wa[p].final)
    /\ pc' = [pc EXCEPT ![p] = "wa.defer"]
    /\ UNCHANGED <<collVars, order, lockVars, callVars, ret, wa, op>>

\* a writeAtomic that goes on to the rename after a failed write, sync or close
WriteAtomicFailsIgnored(p) ==
    /\ pc[p] \in {"wa.create", "wa.write", "wa.sync", "wa.close", "wa.rename"}
    /\ wa' = [wa EXCEPT ![p].err = TRUE, ![p].open = FALSE]
    /\ pc' = [pc EXCEPT ![p] = IF pc[p] = "wa.create" THEN ret[p]
                               ELSE IF pc[p] = "wa.rename" THEN "wa.defer" ELSE "wa.rename"]
    /\ UNCHANGED <<collVars, order, lockVars, callVars, ret, files, op>>

\* the step at hand fails (lines 12, 16, 23, 27, 31, 35): before the temp file
\* exists the call returns the error, after that the deferred Remove runs
\* first; a failed Write or Sync closes the temp file (lines 23, 27)
WriteAtomicFails(p) ==
    /\ pc[p] \in {"wa.create", "wa.write", "wa.sync", "wa.close", "wa.rename"}
    /\ wa' = [wa EXCEPT ![p].err = TRUE, ![p].open = FALSE]
    /\ pc' = [pc EXCEPT ![p] = IF pc[p] = "wa.create" THEN ret[p] ELSE "wa.defer"]
    /\ UNCHANGED <<collVars, order, lockVars, callVars, ret, files, op>>

\* a deferred Remove that is skipped when the call failed
WriteAtomicDeferLeaks(p) ==
    /\ pc[p] = "wa.defer"
    /\ files' = IF wa[p].err THEN files ELSE Remove(files, wa[p].tmp)
    /\ wa' = [wa EXCEPT ![p].tmp = NoTmp, ![p].open = FALSE, ![p].synced = FALSE]
    /\ pc' = [pc EXCEPT ![p] = ret[p]]
    /\ UNCHANGED <<collVars, order, lockVars, callVars, ret, op>>

\* line 20, run at return: os.Remove(tmpName), the error ignored
WriteAtomicDefer(p) ==
    /\ pc[p] = "wa.defer"
    /\ files' = Remove(files, wa[p].tmp)
    /\ wa' = [wa EXCEPT ![p].tmp = NoTmp, ![p].open = FALSE, ![p].synced = FALSE]
    /\ pc' = [pc EXCEPT ![p] = ret[p]]
    /\ UNCHANGED <<collVars, order, lockVars, callVars, ret, op>>

\* ---------------------------------- read-modify-write cycles on one counter
\* the counter document {"count":n}: a tag byte and the number
JsonTag == 7
Marshal(n) == <<JsonTag, n>>
\* json.Unmarshal into a zero counter: the count stays 0 when the bytes do not parse
Unmarshal(b) == IF Len(b) = 2 /\ b[1] = JsonTag THEN b[2] ELSE 0
CounterPath == RecName(1, Ext)

\* dbpkg.Lock(finalPath, LOCK_READ_WRITE)
RmwLock(p) ==
    /\ pc[p] = "rmw.start"
    /\ lpath' = [lpath EXCEPT ![p] = CounterPath]
    /\ ltype' = [ltype EXCEPT ![p] = LOCK_READ_WRITE]
    /\ owns' = [owns EXCEPT ![p] = TRUE]
    /\ pc' = [pc EXCEPT ![p] = "Lock.get"]
    /\ ret' = [ret EXCEPT ![p] = "rmw.read"]
    /\ UNCHANGED <<collVars, order, lockVars, le, ioVars>>

\* os.ReadFile, Unmarshal, c.Count++, Marshal, then the call of the atomic write
RmwReadModify(p) ==
    /\ pc[p] = "rmw.read"
    /\ LET b == IF Exists(CounterPath) THEN files[CounterPath] ELSE <<>>
       IN  wa' = [wa EXCEPT ![p] = WriteAtomicFrame(CounterPath, Marshal(Unmarshal(b) + 1))]
    /\ pc' = [pc EXCEPT ![p] = "wa.create"]
    /\ ret' = [ret EXCEPT ![p] = "rmw.unlock"]
    /\ UNCHANGED <<collVars, order, lockVars, callVars, files, op>>

\* the deferred dbpkg.Unlock(finalPath, LOCK_READ_WRITE)
RmwUnlock(p) ==
    /\ pc[p] = "rmw.unlock"
    /\ wa' = [wa EXCEPT ![p] = NoWrite]
    /\ lpath' = [lpath EXCEPT ![p] = CounterPath]
    /\ ltype' = [ltype EXCEPT ![p] = LOCK_READ_WRITE]
    /\ owns' = [owns EXCEPT ![p] = TRUE]
    /\ pc' = [pc EXCEPT ![p] = "Unlock.lookup"]
    /\ ret' = [ret EXCEPT ![p] = "rmw.done"]
    /\ UNCHANGED <<collVars, order, lockVars, le, files, op>>

\* coll.Create(id, {"count":0}) has run; every goroutine is about to start
InitRmw ==
    /\ locks = <<>>
    /\ heap = <<>>
    /\ fatal = FALSE
    /\ stray = FALSE
    /\ locksMu = NoProc
    /\ pc = [p \in Procs |-> "rmw.start"]
    /\ ret = [p \in Procs |-> "rmw.done"]
    /\ lpath = [p \in Procs |-> RecName(1, Ext)]
    /\ ltype = [p \in Procs |-> LOCK_READ]
    /\ owns = [p \in Procs |-> FALSE]
    /\ le = [p \in Procs |-> NoEntry]
    /\ files = [n \in {CounterPath} |-> Marshal(0)]
    /\ wa = [p \in Procs |-> NoWrite]
    /\ op = [p \in Procs |-> NoOp]
    /\ useGzip = FALSE
    /\ recModes = <<>>
    /\ recLocks = <<>>
    /\ recStates = <<>>
    /\ order = <<>>

NextRmw ==
    \E p \in Procs :
        \/ RmwLock(p)
        \/ LockGet(p)
        \/ LockAcquire(p)
        \/ RmwReadModify(p)
        \/ WriteAtomicCreateTemp(p)
        \/ WriteAtomicWrite(p)
        \/ WriteAtomicSync(p)
        \/ WriteAtomicClose(p)
        \/ WriteAtomicRename(p)
        \/ WriteAtomicDefer(p)
        \/ RmwUnlock(p)
        \/ UnlockLookup(p)
        \/ UnlockRelease(p)
        \/ UnlockDecrement(p)

SpecRmw == InitRmw /\ [][NextRmw]_vars

\* ---------------------------------------- concurrent writeAtomic callers
WritePaths == {RecName(1, Ext)}

\* a caller calls writeAtomic(dir, final, data)
CallWriteAtomic(p) ==
    /\ pc[p] = "idle"
    /\ \E final \in WritePaths, data \in Payloads :
          wa' = [wa EXCEPT ![p] = WriteAtomicFrame(final, data)]
    /\ pc' = [pc EXCEPT ![p] = "wa.create"]
    /\ ret' = [ret EXCEPT ![p] = "wa.returned"]
    /\ UNCHANGED <<collVars, order, lockVars, callVars, files, op>>

\* the caller has seen the result
WriteAtomicReturned(p) ==
    /\ pc[p] = "wa.returned"
    /\ wa' = [wa EXCEPT ![p] = NoWrite]
    /\ pc' = [pc EXCEPT ![p] = "idle"]
    /\ ret' = [ret EXCEPT ![p] = "idle"]
    /\ UNCHANGED <<collVars, order, lockVars, callVars, files, op>>

NextWrite ==
    \E p \in Procs :
        \/ CallWriteAtomic(p)
        \/ WriteAtomicCreateTemp(p)
        \/ WriteAtomicWrite(p)
        \/ WriteAtomicSync(p)
        \/ WriteAtomicClose(p)
        \/ WriteAtomicRename(p)
        \/ WriteAtomicFails(p)
        \/ WriteAtomicDefer(p)
        \/ WriteAtomicReturned(p)

SpecWrite == InitLock /\ [][NextWrite]_vars

\* ------------------------------------------------------------ gzip framing
\* a gzip stream: the magic byte, the data, and a trailer that checks the data
GzMagic == 31
GzTrailer(d) == 100 + Len(d)
\* Gzip, io_gzip.go
Gzip(d) == <<GzMagic>> \o d \o <<GzTrailer(d)>>
IsGzip(r) ==
    /\ Len(r) >= 2
    /\ r[1] = GzMagic
    /\ r[Len(r)] = GzTrailer(SubSeq(r, 2, Len(r) - 1))
\* UnGzip, io_gzip.go: the data, or the record itself and an error
UnGzip(r) ==
    IF IsGzip(r) THEN [data |-> SubSeq(r, 2, Len(r) - 1), err |-> FALSE]
    ELSE [data |-> r, err |-> TRUE]

\* ------------------------------------------- collection.go: the operations
\* the per-call Options: none given, UseGzip true, UseGzip false
OptionSet == {"none", "gzip", "plain"}
\* Create, lines 135-138: the collection default unless the call overrides it
EffectiveGzip(default, opts) == IF opts = "none" THEN default ELSE opts = "gzip"
ExtOf(gz) == IF gz THEN GZipExt ELSE Ext

\* what a Get returned before a call, when the call did not note it
NoResult == [data |-> <<>>, err |-> "unknown"]
\* the frame of a Create call: its arguments, the flag it resolved, its result
CreateFrame(id, data, opts, gz, err) ==
    [name |-> "Create", id |-> id, data |-> data, opts |-> opts, gz |-> gz, err |-> err,
     before |-> NoResult]
\* the frame of a Get call: its argument and result; created is the payload
\* the caller has just stored under id (<<>>: it stored none)
GetFrame(id, created) ==
    [name |-> "Get", id |-> id, data |-> <<>>, err |-> "none", created |-> created]

\* Create, lines 135-150: resolve the flag, compress, Lock(final, LOCK_WRITE)
CallCreateWith(p, ids, datas, optset) ==
    /\ pc[p] = "idle"
    /\ \E id \in ids, data \in datas, opts \in optset :
          LET gz == EffectiveGzip(useGzip, opts)
          IN  /\ op' = [op EXCEPT ![p] = CreateFrame(id, data, opts, gz, FALSE)]
              /\ lpath' = [lpath EXCEPT ![p] = RecName(id, ExtOf(gz))]
    /\ ltype' = [ltype EXCEPT ![p] = LOCK_WRITE]
    /\ owns' = [owns EXCEPT ![p] = TRUE]
    /\ pc' = [pc EXCEPT ![p] = "Lock.get"]
    /\ ret' = [ret EXCEPT ![p] = "Create.remove"]
    /\ UNCHANGED <<collVars, order, lockVars, le, files, wa>>

\* Create with any payload
CallCreateOn(p, ids, optset) == CallCreateWith(p, ids, Payloads, optset)

\* Create with any key and any option
CallCreate(p) == CallCreateOn(p, Keys, OptionSet)

\* Create, lines 140-145: Gzip fails and Create returns the error
CreateGzipFails(p) ==
    /\ pc[p] = "idle"
    /\ \E id \in Keys, data \in Payloads, opts \in OptionSet :
          /\ EffectiveGzip(useGzip, opts)
          /\ op' = [op EXCEPT ![p] = CreateFrame(id, data, opts, TRUE, TRUE)]
    /\ pc' = [pc EXCEPT ![p] = "Create.ret"]
    /\ UNCHANGED <<collVars, order, lockVars, callVars, ret, files, wa>>

\* Create, lines 153-163, the first step under the write lock of final:
\* os.Remove(other), then the call of writeAtomic
CreateRemoveAndWrite(p) ==
    /\ pc[p] = "Create.remove"
    /\ files' = Remove(files, RecName(op[p].id, ExtOf(~op[p].gz)))
    /\ wa' = [wa EXCEPT ![p] = WriteAtomicFrame(RecName(op[p].id, ExtOf(op[p].gz)),
                                             IF op[p].gz THEN Gzip(op[p].data) ELSE op[p].data)]
    /\ pc' = [pc EXCEPT ![p] = "wa.create"]
    /\ ret' = [ret EXCEPT ![p] = "Create.unlock"]
    /\ UNCHANGED <<collVars, lockVars, callVars, op>>

\* the same step, and order notes that this Create is the last one to have
\* taken the write lock of its path
CreateRemoveOtherNoted(p) ==
    /\ CreateRemoveAndWrite(p)
    /\ order' = [x \in DOMAIN order \cup {RecName(op[p].id, ExtOf(op[p].gz))} |->
                    IF x = RecName(op[p].id, ExtOf(op[p].gz)) THEN op[p].data ELSE order[x]]

\* Create that leaves the file of the other extension in place
CreateKeepsOther(p) ==
    /\ pc[p] = "Create.remove"
    /\ wa' = [wa EXCEPT ![p] = WriteAtomicFrame(RecName(op[p].id, ExtOf(op[p].gz)),
                                             IF op[p].gz THEN Gzip(op[p].data) ELSE op[p].data)]
    /\ pc' = [pc EXCEPT ![p] = "wa.create"]
    /\ ret' = [ret EXCEPT ![p] = "Create.unlock"]
    /\ UNCHANGED <<collVars, order, lockVars, callVars, op, files>>

\* Create, lines 153-163, where the history is not kept
CreateRemoveOther(p) == CreateRemoveAndWrite(p) /\ UNCHANGED order

\* a Create whose deferred Unlock gives the lock back as a read lock
CreateUnlockAsRead(p) ==
    /\ pc[p] = "Create.unlock"
    /\ op' = [op EXCEPT ![p].err = wa[p].err]
    /\ wa' = [wa EXCEPT ![p] = NoWrite]
    /\ lpath' = [lpath EXCEPT ![p] = RecName(op[p].id, ExtOf(op[p].gz))]
    /\ ltype' = [ltype EXCEPT ![p] = LOCK_READ]
    /\ owns' = [owns EXCEPT ![p] = TRUE]
    /\ pc' = [pc EXCEPT ![p] = "Unlock.lookup"]
    /\ ret' = [ret EXCEPT ![p] = "Create.ret"]
    /\ UNCHANGED <<collVars, order, lockVars, le, files>>

\* a Create that returns without its deferred Unlock
CreateReturnsLocked(p) ==
    /\ pc[p] = "Create.unlock"
    /\ op' = [op EXCEPT ![p].err = wa[p].err]
    /\ wa' = [wa EXCEPT ![p] = NoWrite]
    /\ pc' = [pc EXCEPT ![p] = "Create.ret"]
    /\ UNCHANGED <<collVars, order, lockVars, callVars, ret, files>>

\* Create, line 151 run at return: Unlock(final, LOCK_WRITE)
CreateUnlock(p) ==
    /\ pc[p] = "Create.unlock"
    /\ op' = [op EXCEPT ![p].err = wa[p].err]
    /\ wa' = [wa EXCEPT ![p] = NoWrite]
    /\ lpath' = [lpath EXCEPT ![p] = RecName(op[p].id, ExtOf(op[p].gz))]
    /\ ltype' = [ltype EXCEPT ![p] = LOCK_WRITE]
    /\ owns' = [owns EXCEPT ![p] = TRUE]
    /\ pc' = [pc EXCEPT ![p] = "Unlock.lookup"]
    /\ ret' = [ret EXCEPT ![p] = "Create.ret"]
    /\ UNCHANGED <<collVars, order, lockVars, le, files>>

\* Get, lines 92-95, and readFileWithLock, line 111: Lock(jsonPath, LOCK_READ)
CallGetOn(p, ids) ==
    /\ pc[p] = "idle"
    /\ \E id \in ids :
          /\ op' = [op EXCEPT ![p] = GetFrame(id, <<>>)]
          /\ lpath' = [lpath EXCEPT ![p] = RecName(id, Ext)]
    /\ ltype' = [ltype EXCEPT ![p] = LOCK_READ]
    /\ owns' = [owns EXCEPT ![p] = TRUE]
    /\ pc' = [pc EXCEPT ![p] = "Lock.get"]
    /\ ret' = [ret EXCEPT ![p] = "Get.readJson"]
    /\ UNCHANGED <<collVars, order, lockVars, le, files, wa>>

\* Get with any key
CallGet(p) == CallGetOn(p, Keys)

\* the caller of a Create that succeeded reads the record back
CallGetAfterCreate(p) ==
    /\ pc[p] = "Create.ret"
    /\ ~op[p].err
    /\ op' = [op EXCEPT ![p] = GetFrame(op[p].id, op[p].data)]
    /\ lpath' = [lpath EXCEPT ![p] = RecName(op[p].id, Ext)]
    /\ ltype' = [ltype EXCEPT ![p] = LOCK_READ]
    /\ owns' = [owns EXCEPT ![p] = TRUE]
    /\ pc' = [pc EXCEPT ![p] = "Lock.get"]
    /\ ret' = [ret EXCEPT ![p] = "Get.readJson"]
    /\ UNCHANGED <<collVars, order, lockVars, le, files, wa>>

\* a Get that reports not-found without trying the gzip file
GetReadJsonNoFallback(p) ==
    /\ pc[p] = "Get.readJson"
    /\ IF Exists(RecName(op[p].id, Ext))
       THEN op' = [op EXCEPT ![p].data = files[RecName(op[p].id, Ext)]]
       ELSE op' = [op EXCEPT ![p].err = "notexist"]
    /\ ret' = [ret EXCEPT ![p] = "Get.ret"]
    /\ pc' = [pc EXCEPT ![p] = "Unlock.lookup"]
    /\ UNCHANGED <<collVars, order, lockVars, callVars, files, wa>>

\* a Get that goes to the gzip file whether or not the json file exists
GetReadJsonSkips(p) ==
    /\ pc[p] = "Get.readJson"
    /\ ret' = [ret EXCEPT ![p] = "Get.gzip"]
    /\ pc' = [pc EXCEPT ![p] = "Unlock.lookup"]
    /\ UNCHANGED <<collVars, order, lockVars, callVars, files, wa, op>>

\* readFileWithLock(jsonPath, false), lines 114-130: Stat, ReadFile, and the
\* deferred Unlock; then Get returns the bytes or goes on to the gzip file
GetReadJson(p) ==
    /\ pc[p] = "Get.readJson"
    /\ IF Exists(RecName(op[p].id, Ext))
       THEN /\ op' = [op EXCEPT ![p].data = files[RecName(op[p].id, Ext)]]
            /\ ret' = [ret EXCEPT ![p] = "Get.ret"]
       ELSE /\ ret' = [ret EXCEPT ![p] = "Get.gzip"]
            /\ UNCHANGED op
    /\ pc' = [pc EXCEPT ![p] = "Unlock.lookup"]
    /\ UNCHANGED <<collVars, order, lockVars, callVars, files, wa>>

\* Get, line 102, and readFileWithLock, line 111: Lock(gzPath, LOCK_READ)
GetLockGzip(p) ==
    /\ pc[p] = "Get.gzip"
    /\ lpath' = [lpath EXCEPT ![p] = RecName(op[p].id, GZipExt)]
    /\ ltype' = [ltype EXCEPT ![p] = LOCK_READ]
    /\ owns' = [owns EXCEPT ![p] = TRUE]
    /\ pc' = [pc EXCEPT ![p] = "Lock.get"]
    /\ ret' = [ret EXCEPT ![p] = "Get.readGzip"]
    /\ UNCHANGED <<collVars, order, lockVars, le, ioVars>>

\* readFileWithLock(gzPath, true), lines 114-130: Stat, ReadFile, UnGzip, and
\* the deferred Unlock
GetReadGzip(p) ==
    /\ pc[p] = "Get.readGzip"
    /\ IF Exists(RecName(op[p].id, GZipExt))
       THEN LET u == UnGzip(files[RecName(op[p].id, GZipExt)])
            IN  op' = [op EXCEPT ![p].data = IF u.err THEN <<>> ELSE u.data,
                                 ![p].err = IF u.err THEN "gzip" ELSE "none"]
       ELSE op' = [op EXCEPT ![p].err = "notexist"]
    /\ pc' = [pc EXCEPT ![p] = "Unlock.lookup"]
    /\ ret' = [ret EXCEPT ![p] = "Get.ret"]
    /\ UNCHANGED <<collVars, order, lockVars, callVars, files, wa>>

\* the frame of a Delete call: its argument and its result; had is the set
\* of the id's variant files that existed when it began
DeleteFrame(id) ==
    [name |-> "Delete", id |-> id, err |-> "none",
     had |-> {RecName(id, Ext), RecName(id, GZipExt)} \cap DOMAIN files]

\* Delete, lines 168-171: Lock(jsonPath, LOCK_WRITE)
CallDeleteOn(p, ids) ==
    /\ pc[p] = "idle"
    /\ \E id \in ids :
          /\ op' = [op EXCEPT ![p] = DeleteFrame(id)]
          /\ lpath' = [lpath EXCEPT ![p] = RecName(id, Ext)]
    /\ ltype' = [ltype EXCEPT ![p] = LOCK_WRITE]
    /\ owns' = [owns EXCEPT ![p] = TRUE]
    /\ pc' = [pc EXCEPT ![p] = "Lock.get"]
    /\ ret' = [ret EXCEPT ![p] = "Delete.statJson"]
    /\ UNCHANGED <<collVars, order, lockVars, le, files, wa>>

\* Delete with any key
CallDelete(p) == CallDeleteOn(p, Keys)

\* Delete, lines 172 and 176: os.Stat(jsonPath); without the file,
\* Unlock(jsonPath, LOCK_WRITE) and on to the gzip file
DeleteStatJson(p) ==
    /\ pc[p] = "Delete.statJson"
    /\ IF Exists(RecName(op[p].id, Ext))
       THEN /\ pc' = [pc EXCEPT ![p] = "Delete.removeJson"]
            /\ UNCHANGED <<ret, callVars>>
       ELSE /\ pc' = [pc EXCEPT ![p] = "Unlock.lookup"]
            /\ ret' = [ret EXCEPT ![p] = "Delete.lockGzip"]
            /\ lpath' = [lpath EXCEPT ![p] = RecName(op[p].id, Ext)]
            /\ ltype' = [ltype EXCEPT ![p] = LOCK_WRITE]
            /\ owns' = [owns EXCEPT ![p] = TRUE]
            /\ UNCHANGED le
    /\ UNCHANGED <<collVars, order, lockVars, op, files, wa>>

\* Delete, lines 173-174: return os.Remove(jsonPath), which fails when the
\* file has gone since the Stat, and the deferred Unlock
DeleteRemoveJson(p) ==
    /\ pc[p] = "Delete.removeJson"
    /\ files' = Remove(files, RecName(op[p].id, Ext))
    /\ op' = [op EXCEPT ![p].err = IF Exists(RecName(op[p].id, Ext)) THEN "none" ELSE "notexist"]
    /\ pc' = [pc EXCEPT ![p] = "Unlock.lookup"]
    /\ ret' = [ret EXCEPT ![p] = "Delete.ret"]
    /\ lpath' = [lpath EXCEPT ![p] = RecName(op[p].id, Ext)]
    /\ ltype' = [ltype EXCEPT ![p] = LOCK_WRITE]
    /\ owns' = [owns EXCEPT ![p] = TRUE]
    /\ UNCHANGED <<collVars, order, lockVars, le, wa>>

\* Delete, line 179: Lock(gzPath, LOCK_WRITE)
DeleteLockGzip(p) ==
    /\ pc[p] = "Delete.lockGzip"
    /\ lpath' = [lpath EXCEPT ![p] = RecName(op[p].id, GZipExt)]
    /\ ltype' = [ltype EXCEPT ![p] = LOCK_WRITE]
    /\ owns' = [owns EXCEPT ![p] = TRUE]
    /\ pc' = [pc EXCEPT ![p] = "Lock.get"]
    /\ ret' = [ret EXCEPT ![p] = "Delete.statGzip"]
    /\ UNCHANGED <<collVars, order, lockVars, le, ioVars>>

\* Delete, lines 180-183: os.Stat(gzPath); without the file the call returns
\* the not-found error through the deferred Unlock
DeleteStatGzip(p) ==
    /\ pc[p] = "Delete.statGzip"
    /\ IF Exists(RecName(op[p].id, GZipExt))
       THEN /\ pc' = [pc EXCEPT ![p] = "Delete.removeGzip"]
            /\ UNCHANGED <<ret, callVars, op>>
       ELSE /\ op' = [op EXCEPT ![p].err = "notexist"]
            /\ pc' = [pc EXCEPT ![p] = "Unlock.lookup"]
            /\ ret' = [ret EXCEPT ![p] = "Delete.ret"]
            /\ lpath' = [lpath EXCEPT ![p] = RecName(op[p].id, GZipExt)]
            /\ ltype' = [ltype EXCEPT ![p] = LOCK_WRITE]
            /\ owns' = [owns EXCEPT ![p] = TRUE]
            /\ UNCHANGED le
    /\ UNCHANGED <<collVars, order, lockVars, files, wa>>

\* Delete, line 184: return os.Remove(gzPath), and the deferred Unlock
DeleteRemoveGzip(p) ==
    /\ pc[p] = "Delete.removeGzip"
    /\ files' = Remove(files, RecName(op[p].id, GZipExt))
    /\ op' = [op EXCEPT ![p].err = IF Exists(RecName(op[p].id, GZipExt)) THEN "none" ELSE "notexist"]
    /\ pc' = [pc EXCEPT ![p] = "Unlock.lookup"]
    /\ ret' = [ret EXCEPT ![p] = "Delete.ret"]
    /\ lpath' = [lpath EXCEPT ![p] = RecName(op[p].id, GZipExt)]
    /\ ltype' = [ltype EXCEPT ![p] = LOCK_WRITE]
    /\ owns' = [owns EXCEPT ![p] = TRUE]
    /\ UNCHANGED <<collVars, order, lockVars, le, wa>>

\* the steps of Delete after the call
DeleteStep(p) ==
    \/ DeleteStatJson(p)
    \/ DeleteRemoveJson(p)
    \/ DeleteLockGzip(p)
    \/ DeleteStatGzip(p)
    \/ DeleteRemoveGzip(p)

\* Get, lines 91-130, when nothing else runs: what it returns in directory f
GetOutcome(f, id) ==
    IF RecName(id, Ext) \in DOMAIN f
    THEN [data |-> f[RecName(id, Ext)], err |-> "none"]
    ELSE IF RecName(id, GZipExt) \in DOMAIN f
    THEN LET u == UnGzip(f[RecName(id, GZipExt)])
         IN  [data |-> IF u.err THEN <<>> ELSE u.data,
              err |-> IF u.err THEN "gzip" ELSE "none"]
    ELSE [data |-> <<>>, err |-> "notexist"]

\* Delete, lines 167-185, when nothing else runs: the directory it leaves
\* and the error it returns in directory f
DeleteOutcome(f, id) ==
    IF RecName(id, Ext) \in DOMAIN f
    THEN [files |-> Remove(f, RecName(id, Ext)), err |-> "none"]
    ELSE IF RecName(id, GZipExt) \in DOMAIN f
    THEN [files |-> Remove(f, RecName(id, GZipExt)), err |-> "none"]
    ELSE [files |-> f, err |-> "notexist"]

\* os.ReadDir returns the entries sorted by file name: ".tmp-..." names come
\* first, then the records by id, "id.json" before "id.json.gz"
NameBefore(a, b) ==
    \/ a.tmp /\ ~b.tmp
    \/ a.tmp = b.tmp /\ a.id < b.id
    \/ a.tmp = b.tmp /\ a.id = b.id /\ a.ext = Ext /\ b.ext = GZipExt

RECURSIVE ReadDir(_)
ReadDir(names) ==
    IF names = {} THEN <<>>
    ELSE LET first == CHOOSE a \in names : \A b \in names \ {a} : NameBefore(a, b)
         IN  <<first>> \o ReadDir(names \ {first})

\* strings.HasSuffix(name, Ext) || strings.HasSuffix(name, GZipExt)
HasRecordSuffix(name) == name.ext \in {Ext, GZipExt}
\* strings.TrimSuffix: the map key of an entry
TrimSuffix(name) == [tmp |-> name.tmp, id |-> name.id]

\* GetAllByName, lines 52-56: os.ReadDir(c.path)
CallGetAllByName(p) ==
    /\ pc[p] = "idle"
    /\ op' = [op EXCEPT ![p] = [name |-> "GetAllByName", entries |-> ReadDir(DOMAIN files),
                                 res |-> <<>>]]
    /\ pc' = [pc EXCEPT ![p] = "List.entry"]
    /\ UNCHANGED <<collVars, order, lockVars, callVars, ret, files, wa>>

\* GetAllByName, lines 57-81, one entry: the result map after it; the entry
\* is skipped when it has neither suffix, cannot be read or does not unzip
GetAllByNameEntry(res, name) ==
    IF ~HasRecordSuffix(name) \/ ~Exists(name) THEN res
    ELSE LET b == files[name]
             u == UnGzip(b)
         IN  IF name.ext = GZipExt /\ u.err THEN res
             ELSE [k \in DOMAIN res \cup {TrimSuffix(name)} |->
                     IF k = TrimSuffix(name)
                     THEN (IF name.ext = GZipExt THEN u.data ELSE b)
                     ELSE res[k]]

\* GetAllByName, lines 57-82: the loop body for the next entry, or the return
GetAllByNameStep(p) ==
    /\ pc[p] = "List.entry"
    /\ IF op[p].entries = <<>>
       THEN /\ pc' = [pc EXCEPT ![p] = "List.ret"]
            /\ UNCHANGED op
       ELSE /\ op' = [op EXCEPT ![p].entries = Tail(@),
                                ![p].res = GetAllByNameEntry(@, Head(op[p].entries))]
            /\ UNCHANGED pc
    /\ UNCHANGED <<collVars, order, lockVars, callVars, ret, files, wa>>

\* the caller has seen the result of its operation
OpReturn(p) ==
    /\ pc[p] \in {"Create.ret", "Get.ret", "List.ret", "Delete.ret"}
    /\ op' = [op EXCEPT ![p] = NoOp]
    /\ pc' = [pc EXCEPT ![p] = "idle"]
    /\ ret' = [ret EXCEPT ![p] = "idle"]
    /\ UNCHANGED <<collVars, order, lockVars, callVars, files, wa>>

\* db.Collection(name) of a database opened with either default
InitColl ==
    /\ useGzip \in BOOLEAN
    /\ recModes = <<>>
    /\ recLocks = <<>>
    /\ recStates = <<>>
    /\ order = <<>>
    /\ locks = <<>>
    /\ heap = <<>>
    /\ fatal = FALSE
    /\ stray = FALSE
    /\ locksMu = NoProc
    /\ pc = [p \in Procs |-> "idle"]
    /\ ret = [p \in Procs |-> "idle"]
    /\ lpath = [p \in Procs |-> RecName(1, Ext)]
    /\ ltype = [p \in Procs |-> LOCK_READ]
    /\ owns = [p \in Procs |-> FALSE]
    /\ le = [p \in Procs |-> NoEntry]
    /\ files = <<>>
    /\ wa = [p \in Procs |-> NoWrite]
    /\ op = [p \in Procs |-> NoOp]

\* the steps inside Lock, Unlock and writeAtomic
InnerStep(p) ==
    \/ LockGet(p)
    \/ LockAcquire(p)
    \/ UnlockLookup(p)
    \/ UnlockRelease(p)
    \/ UnlockDecrement(p)
    \/ WriteAtomicCreateTemp(p)
    \/ WriteAtomicWrite(p)
    \/ WriteAtomicSync(p)
    \/ WriteAtomicClose(p)
    \/ WriteAtomicRename(p)
    \/ WriteAtomicFails(p)
    \/ WriteAtomicDefer(p)

WriterStep(p) ==
    \/ CallCreate(p)
    \/ CreateGzipFails(p)
    \/ CreateRemoveOther(p)
    \/ CreateUnlock(p)

ReaderStep(p) ==
    \/ CallGet(p)
    \/ GetReadJson(p)
    \/ GetLockGzip(p)
    \/ GetReadGzip(p)
    \/ CallGetAllByName(p)
    \/ GetAllByNameStep(p)

\* goroutine 1 reads and lists the collection while the others create records
Readers == {1}
Writers == Procs \ Readers
NextColl ==
    \/ \E p \in Readers : ReaderStep(p)
    \/ \E p \in Writers : WriterStep(p)
    \/ \E p \in Procs : InnerStep(p) \/ OpReturn(p)
SpecColl == InitColl /\ [][NextColl]_vars

\* one goroutine uses the collection
NextSeq ==
    \/ WriterStep(1)
    \/ ReaderStep(1)
    \/ CallGetAfterCreate(1)
    \/ CallDelete(1)
    \/ DeleteStep(1)
    \/ InnerStep(1)
    \/ OpReturn(1)
SpecSeq == InitColl /\ [][NextSeq]_vars

\* goroutines create the same key with the collection's compression setting
\* and read it back; no I/O step fails, so every Create completes
OrderKeys == {1}
NextOrder ==
    \E p \in Procs :
        \/ CallCreateOn(p, OrderKeys, {"none"})
        \/ CreateRemoveOtherNoted(p)
        \/ CreateUnlock(p)
        \/ CallGet(p)
        \/ CallGetAfterCreate(p)
        \/ GetReadJson(p)
        \/ GetLockGzip(p)
        \/ GetReadGzip(p)
        \/ LockGet(p)
        \/ LockAcquire(p)
        \/ UnlockLookup(p)
        \/ UnlockRelease(p)
        \/ UnlockDecrement(p)
        \/ WriteAtomicCreateTemp(p)
        \/ WriteAtomicWrite(p)
        \/ WriteAtomicSync(p)
        \/ WriteAtomicClose(p)
        \/ WriteAtomicRename(p)
        \/ WriteAtomicDefer(p)
        \/ OpReturn(p)
SpecOrder == InitColl /\ [][NextOrder]_vars

\* goroutines create one key with any option, delete it and read it,
\* concurrently; no I/O step fails
NextVariants ==
    \E p \in Procs :
        \/ CallCreateOn(p, OrderKeys, OptionSet)
        \/ CreateRemoveOther(p)
        \/ CreateUnlock(p)
        \/ CallGetOn(p, OrderKeys)
        \/ GetReadJson(p)
        \/ GetLockGzip(p)
        \/ GetReadGzip(p)
        \/ CallDeleteOn(p, OrderKeys)
        \/ DeleteStep(p)
        \/ LockGet(p)
        \/ LockAcquire(p)
        \/ UnlockLookup(p)
        \/ UnlockRelease(p)
        \/ UnlockDecrement(p)
        \/ WriteAtomicCreateTemp(p)
        \/ WriteAtomicWrite(p)
        \/ WriteAtomicSync(p)
        \/ WriteAtomicClose(p)
        \/ WriteAtomicRename(p)
        \/ WriteAtomicDefer(p)
        \/ OpReturn(p)
SpecVariants == InitColl /\ [][NextVariants]_vars

\* ------------------------------- simplejsondb.go: the older Create and Get
\* Create, lines 203-208: the call's option counts only when the collection
\* default is off
LegacyEffectiveGzip(default, opts) == IF ~default /\ opts = "gzip" THEN TRUE ELSE default

\* the proper prefixes of a payload: what a failed os.WriteFile may leave
Prefixes(d) == {SubSeq(d, 1, n) : n \in 0..(Len(d) - 1)}

\* Create, lines 200-217, under c.mu: the file name comes from the collection
\* default (line 209), the bytes are compressed by the resolved flag
LegacyCreate(p) ==
    /\ pc[p] = "idle"
    /\ \E id \in Keys, data \in Payloads, opts \in OptionSet :
          LET gz == LegacyEffectiveGzip(useGzip, opts)
          IN  /\ files' = WriteFile(files, RecName(id, ExtOf(useGzip)),
                                   IF gz THEN Gzip(data) ELSE data)
              /\ op' = [op EXCEPT ![p] = CreateFrame(id, data, opts, gz, FALSE)]
    /\ pc' = [pc EXCEPT ![p] = "Create.ret"]
    /\ UNCHANGED <<collVars, order, lockVars, callVars, ret, wa>>

\* Create, line 216: os.WriteFile fails; the file is left as it was or with
\* the part of the bytes that was written
LegacyCreateFails(p) ==
    /\ pc[p] = "idle"
    /\ \E id \in Keys, data \in Payloads, opts \in OptionSet :
          LET gz == LegacyEffectiveGzip(useGzip, opts)
              bytes == IF gz THEN Gzip(data) ELSE data
          IN  /\ \/ UNCHANGED files
                 \/ \E part \in Prefixes(bytes) :
                       files' = WriteFile(files, RecName(id, ExtOf(useGzip)), part)
              /\ op' = [op EXCEPT ![p] = CreateFrame(id, data, opts, gz, TRUE)]
    /\ pc' = [pc EXCEPT ![p] = "Create.ret"]
    /\ UNCHANGED <<collVars, order, lockVars, callVars, ret, wa>>

\* Get, lines 182-197, with getPathIfExist, lines 269-284: key.json if it
\* exists, else key.json.gz unzipped, else the error of reading no file
LegacyGetResult(f, id, created) ==
    IF RecName(id, Ext) \in DOMAIN f
    THEN [GetFrame(id, created) EXCEPT !.data = f[RecName(id, Ext)]]
    ELSE IF RecName(id, GZipExt) \in DOMAIN f
    THEN LET u == UnGzip(f[RecName(id, GZipExt)])
         IN  [GetFrame(id, created) EXCEPT !.data = u.data,
                                           !.err = IF u.err THEN "gzip" ELSE "none"]
    ELSE [GetFrame(id, created) EXCEPT !.err = "notexist"]

LegacyGet(p) ==
    /\ pc[p] = "idle"
    /\ \E id \in Keys : op' = [op EXCEPT ![p] = LegacyGetResult(files, id, <<>>)]
    /\ pc' = [pc EXCEPT ![p] = "Get.ret"]
    /\ UNCHANGED <<collVars, order, lockVars, callVars, ret, files, wa>>

\* the caller of a Create that succeeded reads the record back
LegacyGetAfterCreate(p) ==
    /\ pc[p] = "Create.ret"
    /\ ~op[p].err
    /\ op' = [op EXCEPT ![p] = LegacyGetResult(files, op[p].id, op[p].data)]
    /\ pc' = [pc EXCEPT ![p] = "Get.ret"]
    /\ UNCHANGED <<collVars, order, lockVars, callVars, ret, files, wa>>

\* one goroutine uses a collection of the older implementation
NextLegacy ==
    \/ LegacyCreate(1)
    \/ LegacyCreateFails(1)
    \/ LegacyGet(1)
    \/ LegacyGetAfterCreate(1)
    \/ OpReturn(1)
SpecLegacy == InitColl /\ [][NextLegacy]_vars

\* ------------------------- simplejsondb.go: the per-record lock tracker
\* LockMode, lines 32-41
NoMode == 0
ModeRead == 1
ModeWrite == 2
ModeReadWrite == 3
LockModes == {NoMode, ModeRead, ModeWrite, ModeReadWrite}
\* callers stop taking holds on an id that has a count of MaxCount or MaxCount
\* shared holds
MaxCount == 2

\* what the tracker never touches
nonRecVars == <<useGzip, order, locks, heap, stray, locksMu, ret, callVars, files, wa>>

MapSet(f, k, v) == [x \in DOMAIN f \cup {k} |-> IF x = k THEN v ELSE f[x]]
\* the LockState of id, &LockState{} for an id without one
StateOf(id) == IF id \in DOMAIN recStates THEN recStates[id] ELSE [R |-> 0, W |-> 0]
\* c.recModes[id], the zero value for a missing key
ModeOf(id) == IF id \in DOMAIN recModes THEN recModes[id] ELSE NoMode

\* getRecordLock, lines 331-343: the table after the call; a missing RWMutex
\* is created unlocked
getRecordLock(rl, id) == IF id \in DOMAIN rl THEN rl ELSE MapSet(rl, id, [w |-> 0, r |-> 0])
\* a lookup that creates the RWMutex it does not find
getRecordLockIfExistsCreates(rl, id) == getRecordLock(rl, id)

\* getRecordLockIfExists, lines 346-353: the table is left alone
getRecordLockIfExists(rl, id) == rl
\* getOrCreateState, lines 356-368
getOrCreateState(rs, id) == IF id \in DOMAIN rs THEN rs ELSE MapSet(rs, id, [R |-> 0, W |-> 0])

\* a switch whose ModeReadWrite case leaves R alone
CountsRReadOnly(mode) == mode = ModeRead

\* the switch of LockID, UnlockID and IsLock: the modes that use the count R
CountsR(mode) == mode \in {ModeRead, ModeReadWrite}
\* the modes that use the count W and take the exclusive hold
CountsW(mode) == mode # ModeRead
FirstField(mode) == IF CountsR(mode) THEN "R" ELSE "W"
\* LockID, lines 400, 405, 410: the mode it returns
Granted(mode) == IF mode \in {ModeRead, ModeReadWrite} THEN mode ELSE ModeWrite

\* the frame of a LockID call; before is the LockState of id when it began
LockIDFrame(id, mode) ==
    [name |-> "LockID", id |-> id, mode |-> mode, field |-> FirstField(mode), tmp |-> 0,
     res |-> NoMode, err |-> FALSE, before |-> StateOf(id)]
UnlockIDFrame(id) ==
    [name |-> "UnlockID", id |-> id, mode |-> NoMode, l |-> FALSE, st |-> FALSE,
     field |-> "R", tmp |-> 0, err |-> FALSE, held |-> NoMode]
GetLockFrame(id) ==
    [name |-> "GetLock", id |-> id, State |-> [R |-> 0, W |-> 0], Mode |-> NoMode]

\* LockID, line 381
CallLockID(p, ids) ==
    /\ ~fatal
    /\ pc[p] = "idle"
    /\ \E id \in ids, mode \in LockModes :
          /\ StateOf(id).R < MaxCount
          /\ StateOf(id).W < MaxCount
          /\ id \in DOMAIN recLocks => recLocks[id].r < MaxCount
          /\ op' = [op EXCEPT ![p] = LockIDFrame(id, mode)]
    /\ pc' = [pc EXCEPT ![p] = "LockID.lock"]
    /\ UNCHANGED <<nonRecVars, fatal, recModes, recLocks, recStates>>

\* LockID, line 390: l := c.getRecordLock(id)
LockIDGetRecordLock(p) ==
    /\ ~fatal
    /\ pc[p] = "LockID.lock"
    /\ recLocks' = getRecordLock(recLocks, op[p].id)
    /\ pc' = [pc EXCEPT ![p] = "LockID.state"]
    /\ UNCHANGED <<nonRecVars, fatal, op, recModes, recStates>>

\* LockID, line 391: st := c.getOrCreateState(id)
LockIDGetOrCreateState(p) ==
    /\ ~fatal
    /\ pc[p] = "LockID.state"
    /\ recStates' = getOrCreateState(recStates, op[p].id)
    /\ pc' = [pc EXCEPT ![p] = "LockID.mode"]
    /\ UNCHANGED <<nonRecVars, fatal, op, recModes, recLocks>>

\* LockID, lines 392-395: c.recModes[id] = mode, outside recMu
LockIDSetMode(p) ==
    /\ ~fatal
    /\ pc[p] = "LockID.mode"
    /\ recModes' = MapSet(recModes, op[p].id, op[p].mode)
    /\ pc' = [pc EXCEPT ![p] = "LockID.load"]
    /\ UNCHANGED <<nonRecVars, fatal, op, recLocks, recStates>>

\* LockID, line 395, while another caller writes or reads c.recModes: the Go
\* runtime may stop the process (concurrent map writes, concurrent map read
\* and map write)
LockIDSetModeRace(p) ==
    /\ ~fatal
    /\ pc[p] = "LockID.mode"
    /\ \E q \in Procs \ {p} : pc[q] \in {"LockID.mode", "UnlockID.mode", "GetLock.read"}
    /\ fatal' = TRUE
    /\ UNCHANGED <<nonRecVars, pc, op, recModes, recLocks, recStates>>

\* LockID, lines 398, 402, 403, 408: st.R++ or st.W++ is a load ...
LockIDLoad(p) ==
    /\ ~fatal
    /\ pc[p] = "LockID.load"
    /\ op' = [op EXCEPT ![p].tmp = recStates[op[p].id][op[p].field]]
    /\ pc' = [pc EXCEPT ![p] = "LockID.store"]
    /\ UNCHANGED <<nonRecVars, fatal, recModes, recLocks, recStates>>

\* ... and a store, neither under a lock; ModeReadWrite counts R, then W
LockIDStore(p) ==
    /\ ~fatal
    /\ pc[p] = "LockID.store"
    /\ recStates' = [recStates EXCEPT ![op[p].id][op[p].field] = op[p].tmp + 1]
    /\ IF op[p].mode = ModeReadWrite /\ op[p].field = "R"
       THEN /\ op' = [op EXCEPT ![p].field = "W"]
            /\ pc' = [pc EXCEPT ![p] = "LockID.load"]
       ELSE /\ pc' = [pc EXCEPT ![p] = "LockID.acq"]
            /\ UNCHANGED op
    /\ UNCHANGED <<nonRecVars, fatal, recModes, recLocks>>

\* LockID, lines 399, 404, 409: l.RLock() or l.Lock(), which waits, and the
\* return; nothing panics, so the recover of lines 384-389 never sets err
LockIDAcquire(p) ==
    /\ ~fatal
    /\ pc[p] = "LockID.acq"
    /\ LET e == recLocks[op[p].id]
       IN  IF op[p].mode = ModeRead
           THEN /\ CanRLock(e)
                /\ recLocks' = [recLocks EXCEPT ![op[p].id].r = @ + 1]
           ELSE /\ CanLock(e)
                /\ recLocks' = [recLocks EXCEPT ![op[p].id].w = 1]
    /\ op' = [op EXCEPT ![p].res = Granted(op[p].mode)]
    /\ pc' = [pc EXCEPT ![p] = "LockID.ret"]
    /\ UNCHANGED <<nonRecVars, fatal, recModes, recStates>>

\* UnlockID, line 416
CallUnlockID(p, ids) ==
    /\ ~fatal
    /\ pc[p] = "idle"
    /\ \E id \in ids : op' = [op EXCEPT ![p] = UnlockIDFrame(id)]
    /\ pc' = [pc EXCEPT ![p] = "UnlockID.mode"]
    /\ UNCHANGED <<nonRecVars, fatal, recModes, recLocks, recStates>>

\* UnlockID, lines 417-420: mode, ok := c.recModes[id]
UnlockIDReadMode(p) ==
    /\ ~fatal
    /\ pc[p] = "UnlockID.mode"
    /\ op' = [op EXCEPT ![p].mode = ModeOf(op[p].id)]
    /\ pc' = [pc EXCEPT ![p] = "UnlockID.lock"]
    /\ UNCHANGED <<nonRecVars, fatal, recModes, recLocks, recStates>>

\* UnlockID, line 429: l := c.getRecordLockIfExists(id)
UnlockIDGetLock(p) ==
    /\ ~fatal
    /\ pc[p] = "UnlockID.lock"
    /\ recLocks' = getRecordLockIfExists(recLocks, op[p].id)
    /\ op' = [op EXCEPT ![p].l = op[p].id \in DOMAIN recLocks']
    /\ pc' = [pc EXCEPT ![p] = "UnlockID.state"]
    /\ UNCHANGED <<nonRecVars, fatal, recModes, recStates>>

\* UnlockID, lines 430-433: st := c.getStateIfExists(id); without a lock or a
\* state the call returns nil
UnlockIDGetState(p) ==
    /\ ~fatal
    /\ pc[p] = "UnlockID.state"
    /\ op' = [op EXCEPT ![p].st = op[p].id \in DOMAIN recStates]
    /\ pc' = [pc EXCEPT ![p] = IF op[p].l /\ op[p].id \in DOMAIN recStates
                               THEN "UnlockID.check" ELSE "UnlockID.ret"]
    /\ UNCHANGED <<nonRecVars, fatal, recModes, recLocks, recStates>>

\* UnlockID without the test of the counts
UnlockIDHeldAlways(s, mode) == TRUE

\* the test of the counts by mode, lines 437, 444, 452
UnlockIDHeld(s, mode) ==
    /\ CountsR(mode) => s.R > 0
    /\ CountsW(mode) => s.W > 0

\* UnlockID, lines 435-458: the test; a count that is not positive makes the
\* call return the double-unlock error
UnlockIDCheck(p) ==
    /\ ~fatal
    /\ pc[p] = "UnlockID.check"
    /\ IF UnlockIDHeld(recStates[op[p].id], op[p].mode)
       THEN /\ op' = [op EXCEPT ![p].field = FirstField(op[p].mode)]
            /\ pc' = [pc EXCEPT ![p] = "UnlockID.load"]
       ELSE /\ op' = [op EXCEPT ![p].err = TRUE]
            /\ pc' = [pc EXCEPT ![p] = "UnlockID.ret"]
    /\ UNCHANGED <<nonRecVars, fatal, recModes, recLocks, recStates>>

\* UnlockID, lines 440, 447, 448, 455: st.R-- or st.W-- is a load ...
UnlockIDLoad(p) ==
    /\ ~fatal
    /\ pc[p] = "UnlockID.load"
    /\ op' = [op EXCEPT ![p].tmp = recStates[op[p].id][op[p].field]]
    /\ pc' = [pc EXCEPT ![p] = "UnlockID.store"]
    /\ UNCHANGED <<nonRecVars, fatal, recModes, recLocks, recStates>>

\* ... and a store
UnlockIDStore(p) ==
    /\ ~fatal
    /\ pc[p] = "UnlockID.store"
    /\ recStates' = [recStates EXCEPT ![op[p].id][op[p].field] = op[p].tmp - 1]
    /\ IF op[p].mode = ModeReadWrite /\ op[p].field = "R"
       THEN /\ op' = [op EXCEPT ![p].field = "W"]
            /\ pc' = [pc EXCEPT ![p] = "UnlockID.load"]
       ELSE /\ pc' = [pc EXCEPT ![p] = "UnlockID.rel"]
            /\ UNCHANGED op
    /\ UNCHANGED <<nonRecVars, fatal, recModes, recLocks>>

\* UnlockID, lines 441, 449, 456: l.RUnlock() or l.Unlock(); on a mutex that
\* is not locked that way the Go runtime stops the process, which recover
\* (lines 422-427) cannot catch
UnlockIDRelease(p) ==
    /\ ~fatal
    /\ pc[p] = "UnlockID.rel"
    /\ LET e == recLocks[op[p].id]
       IN  IF op[p].mode = ModeRead
           THEN IF e.r > 0
                THEN /\ recLocks' = [recLocks EXCEPT ![op[p].id].r = @ - 1]
                     /\ pc' = [pc EXCEPT ![p] = "UnlockID.ret"]
                     /\ UNCHANGED fatal
                ELSE /\ fatal' = TRUE
                     /\ UNCHANGED <<recLocks, pc>>
           ELSE IF e.w = 1
                THEN /\ recLocks' = [recLocks EXCEPT ![op[p].id].w = 0]
                     /\ pc' = [pc EXCEPT ![p] = "UnlockID.ret"]
                     /\ UNCHANGED fatal
                ELSE /\ fatal' = TRUE
                     /\ UNCHANGED <<recLocks, pc>>
    /\ UNCHANGED <<nonRecVars, op, recModes, recStates>>

\* GetLock, line 464
CallGetLock(p, ids) ==
    /\ ~fatal
    /\ pc[p] = "idle"
    /\ \E id \in ids : op' = [op EXCEPT ![p] = GetLockFrame(id)]
    /\ pc' = [pc EXCEPT ![p] = "GetLock.lock"]
    /\ UNCHANGED <<nonRecVars, fatal, recModes, recLocks, recStates>>

\* GetLock, line 465: lock := c.getRecordLock(id)
GetLockGetRecordLock(p) ==
    /\ ~fatal
    /\ pc[p] = "GetLock.lock"
    /\ recLocks' = getRecordLock(recLocks, op[p].id)
    /\ pc' = [pc EXCEPT ![p] = "GetLock.read"]
    /\ UNCHANGED <<nonRecVars, fatal, op, recModes, recStates>>

\* GetLock, lines 473-482: the state if there is one, the mode, the result
GetLockRead(p) ==
    /\ ~fatal
    /\ pc[p] = "GetLock.read"
    /\ op' = [op EXCEPT ![p].State = StateOf(op[p].id), ![p].Mode = ModeOf(op[p].id)]
    /\ pc' = [pc EXCEPT ![p] = "GetLock.ret"]
    /\ UNCHANGED <<nonRecVars, fatal, recModes, recLocks, recStates>>

\* the caller has seen the result of its call
RecReturn(p) ==
    /\ ~fatal
    /\ pc[p] \in {"LockID.ret", "UnlockID.ret", "GetLock.ret"}
    /\ op' = [op EXCEPT ![p] = NoOp]
    /\ pc' = [pc EXCEPT ![p] = "idle"]
    /\ UNCHANGED <<nonRecVars, fatal, recModes, recLocks, recStates>>

\* the steps of caller p, who passes the ids of ids
RecStep(p, ids) ==
    \/ CallLockID(p, ids)
    \/ LockIDGetRecordLock(p)
    \/ LockIDGetOrCreateState(p)
    \/ LockIDSetMode(p)
    \/ LockIDLoad(p)
    \/ LockIDStore(p)
    \/ LockIDAcquire(p)
    \/ CallUnlockID(p, ids)
    \/ UnlockIDReadMode(p)
    \/ UnlockIDGetLock(p)
    \/ UnlockIDGetState(p)
    \/ UnlockIDCheck(p)
    \/ UnlockIDLoad(p)
    \/ UnlockIDStore(p)
    \/ UnlockIDRelease(p)
    \/ CallGetLock(p, ids)
    \/ GetLockGetRecordLock(p)
    \/ GetLockRead(p)
    \/ RecReturn(p)

\* goroutines contend for one record of a collection
SharedIds == {1}
NextRec == \E p \in Procs : RecStep(p, SharedIds) \/ LockIDSetModeRace(p)
SpecRec == InitLock /\ [][NextRec]_vars

\* one goroutine uses the tracker
NextRecSeq == RecStep(1, Keys)
SpecRecSeq == InitLock /\ [][NextRecSeq]_vars

\* ------------------------------------------------------ lock manager claims
\* a caller holds path from the return of its Lock until its Unlock releases
Holds(p, path) ==
    /\ owns[p]
    /\ lpath[p] = path
    /\ pc[p] \in {"held", "Unlock.lookup", "Unlock.rel"}
ExclusiveHolders(path) == {p \in Procs : Holds(p, path) /\ IsExclusive(ltype[p])}
SharedHolders(path) == {p \in Procs : Holds(p, path) /\ ~IsExclusive(ltype[p])}

\* C2: with every Unlock paired with a Lock of the same path and type, each
\* path has no holder, or only shared holders, or exactly one exclusive
\* holder and no other holder.
PathLockCompatible ==
    ~stray =>
        \A path \in JsonPaths :
            \/ ExclusiveHolders(path) = {}
            \/ /\ Cardinality(ExclusiveHolders(path)) = 1
               /\ SharedHolders(path) = {}

\* an exclusive holder keeps a second caller of the same path waiting
ExclusiveHolderAndWaiter ==
    /\ ~stray
    /\ \E p, q \in Procs :
          /\ p # q
          /\ pc[p] = "held" /\ IsExclusive(ltype[p])
          /\ pc[q] = "Lock.acq" /\ lpath[q] = lpath[p]

\* C3: a Lock(q, t) call is never delayed by another path: looking the entry
\* up is always possible, and the acquisition can complete whenever q itself
\* has no conflicting holder, whatever is held or awaited on other paths.
ConflictingHolders(p) ==
    {o \in Procs \ {p} :
        /\ Holds(o, lpath[p])
        /\ (IsExclusive(ltype[p]) \/ IsExclusive(ltype[o]))}

PerPathIsolation ==
    ~fatal =>
        \A p \in Procs :
            /\ pc[p] = "Lock.get" => ENABLED LockGet(p)
            /\ (pc[p] = "Lock.acq" /\ ConflictingHolders(p) = {}) => ENABLED LockAcquire(p)

\* a caller is about to acquire q while another path is held exclusively
AcquireWhileOtherPathHeld ==
    \E p, o \in Procs :
        /\ pc[p] = "Lock.acq"
        /\ pc[o] = "held" /\ IsExclusive(ltype[o]) /\ lpath[o] # lpath[p]
        /\ ~fatal

\* C9: a path has an entry in the table exactly when that entry's count is
\* above 0 (an entry with a positive count is in the table, an entry in the
\* table has a positive count), and when no call is in flight and nothing is
\* held the table is empty.
LockTableRefsInvariant ==
    /\ \A path \in DOMAIN locks : locks[path] \in DOMAIN heap /\ heap[locks[path]].refs > 0
    /\ \A a \in DOMAIN heap : heap[a].refs > 0 => \E path \in DOMAIN locks : locks[path] = a
    /\ (\A p \in Procs : pc[p] = "idle") => locks = <<>>

\* one entry shared by two callers while the other path has no entry
SharedEntryInTable ==
    \E path \in DOMAIN locks :
        /\ heap[locks[path]].refs >= 2
        /\ DOMAIN locks = {path}

\* C10: Unlock of a path that has no entry in the table can always take its
\* step, and that step returns to the caller leaving the table, every entry
\* and the process untouched.
UnlockAbsentStep(p) ==
    (pc[p] = "Unlock.lookup" /\ lpath[p] \notin DOMAIN locks /\ pc'[p] # pc[p]) =>
        /\ pc'[p] = ret[p]
        /\ locks' = locks
        /\ heap' = heap
        /\ fatal' = fatal
        /\ le' = le

UnlockAbsentIsNoOp ==
    /\ [](\A p \in Procs :
            (~fatal /\ pc[p] = "Unlock.lookup" /\ lpath[p] \notin DOMAIN locks) =>
                ENABLED UnlockLookup(p))
    /\ [][\A p \in Procs : UnlockAbsentStep(p)]_vars

\* a caller that holds nothing is unlocking a path without an entry while
\* another path is held
StrayUnlockOfAbsentPath ==
    \E p, o \in Procs :
        /\ pc[p] = "Unlock.lookup" /\ ~owns[p] /\ lpath[p] \notin DOMAIN locks
        /\ pc[o] = "held" /\ lpath[o] \in DOMAIN locks

\* ------------------------------------------- counter and writeAtomic claims
\* C1: once every one of the NumProcs read-modify-write cycles, each run
\* between Lock(path, LOCK_READ_WRITE) and Unlock(path, LOCK_READ_WRITE), has
\* finished, the stored counter is its initial value 0 plus NumProcs.
NoLostUpdates ==
    (\A p \in Procs : pc[p] = "rmw.done") =>
        /\ Exists(CounterPath)
        /\ files[CounterPath] = Marshal(NumProcs)

\* every cycle has finished
AllCyclesDone == \A p \in Procs : pc[p] = "rmw.done"

\* the record files of the directory (everything but temp files)
Records(f) == [n \in {m \in DOMAIN f : ~m.tmp} |-> f[n]]

\* C4: at every instant the content at a final path is absent or the complete
\* payload of one writeAtomic call, and it changes only to the complete
\* payload of the call that renames onto it.
FinalChangesByRename ==
    \A final \in WritePaths :
        (Exists(final)' /\ (~Exists(final) \/ files'[final] # files[final])) =>
            \E p \in Procs :
                /\ pc[p] = "wa.rename" /\ pc'[p] = "wa.defer"
                /\ wa[p].final = final
                /\ files'[final] = wa[p].data

AtomicVisibility ==
    /\ [](\A final \in WritePaths : Exists(final) => files[final] \in Payloads)
    /\ [][FinalChangesByRename]_vars
    /\ [][\A final \in WritePaths : Exists(final) => Exists(final)']_vars

\* a final path holds one payload while a temp file holds the first byte of
\* another
PartialTempBesideFinal ==
    \E p \in Procs :
        /\ pc[p] = "wa.write"
        /\ Exists(wa[p].final) /\ files[wa[p].final] # wa[p].data
        /\ Len(files[wa[p].tmp]) = 1

\* C5: a writeAtomic call that fails returns the error, has changed no final
\* path (only a rename that succeeded changes one, and the call then returns
\* nil), and at its return the temp file it created is gone.
InWriteAtomic(p) == pc[p] \in {"wa.create", "wa.write", "wa.sync", "wa.close", "wa.rename", "wa.defer"}

FailedWriteStep(p) ==
    /\ (InWriteAtomic(p) /\ wa[p].err) => wa'[p].err
    /\ (InWriteAtomic(p) /\ pc'[p] = "wa.returned" /\ wa'[p].err) =>
          /\ Records(files') = Records(files)
          /\ wa[p].tmp \notin DOMAIN files'
    /\ (InWriteAtomic(p) /\ pc'[p] # pc[p] /\ Records(files') # Records(files)) =>
          /\ pc[p] = "wa.rename" /\ pc'[p] = "wa.defer"
          /\ ~wa'[p].err
    /\ (pc[p] = "wa.defer" /\ pc'[p] # pc[p]) =>
          /\ pc'[p] = "wa.returned"
          /\ wa'[p].err = wa[p].err

FailureIsAllOrNothing ==
    /\ [][\A p \in Procs : FailedWriteStep(p)]_vars
    /\ [](\A p \in Procs : (pc[p] = "wa.returned" /\ wa[p].err) => \A t \in TmpNames : Exists(t) => t \in InFlightTmp)

\* a call has returned an error while the final path holds an earlier payload
FailedCallReturned ==
    \E p \in Procs :
        /\ pc[p] = "wa.returned" /\ wa[p].err
        /\ Exists(wa[p].final) /\ files[wa[p].final] # wa[p].data

\* ------------------------------------------------------- collection claims
\* C6: a Create(K, P, ...) that succeeded stored the record under K.json.gz
\* when the effective flag (the call's option, else the collection default)
\* is compressed and under K.json otherwise, and the Get(K) that follows it
\* with no write in between returns P.
RoundTrip ==
    \A p \in Procs :
        /\ (pc[p] = "Create.ret" /\ ~op[p].err) =>
              Exists(RecName(op[p].id, ExtOf(EffectiveGzip(useGzip, op[p].opts))))
        /\ (pc[p] = "Get.ret" /\ op[p].created # <<>>) =>
              /\ op[p].err = "none"
              /\ op[p].data = op[p].created

\* a Get that followed a successful Create has returned
ReadBackDone == \E p \in Procs : pc[p] = "Get.ret" /\ op[p].created # <<>>

\* C7: when a Create of one goroutine's sequence of Creates returns success,
\* exactly one of K.json and K.json.gz exists, the one of the flag that call
\* resolved.
OneVariantAfterCreate ==
    (pc[1] = "Create.ret" /\ ~op[1].err) =>
        /\ Exists(RecName(op[1].id, ExtOf(EffectiveGzip(useGzip, op[1].opts))))
        /\ ~Exists(RecName(op[1].id, ExtOf(~EffectiveGzip(useGzip, op[1].opts))))

\* a Create is about to replace the record that an earlier Create stored
\* under the other extension
StaleVariantBeforeCreate ==
    /\ pc[1] = "Create.remove"
    /\ Exists(RecName(op[1].id, ExtOf(~op[1].gz)))

\* C8: no value GetAllByName has collected is a partly written payload and
\* every key it has collected is a key some Create was called with.
ListingConsistent ==
    \A p \in Procs :
        (op[p].name = "GetAllByName") =>
            \A k \in DOMAIN op[p].res :
                /\ ~k.tmp /\ k.id \in Keys
                /\ op[p].res[k] \in Payloads

\* --------------------------------------------------- record tracker claims
\* C12: in every state reached by interleaved LockID and UnlockID calls, every
\* tracked read count R is at least 0 and every tracked write count W is 0
\* or 1.
LockStateInvariant ==
    \A id \in DOMAIN recStates :
        /\ recStates[id].R >= 0
        /\ recStates[id].W \in {0, 1}

\* C13: LockID(id, mode) on an unheld id returns no error and the mode it
\* granted, and leaves the counts and the hold of id by mode: ModeRead R = 1
\* and one shared hold, ModeReadWrite R = 1, W = 1 and the exclusive hold,
\* ModeWrite W = 1 and the exclusive hold; no step of the call changes the
\* counts of another id.
ZeroState == [R |-> 0, W |-> 0]
LockIDOnUnheld ==
    \A p \in Procs :
        (pc[p] = "LockID.ret" /\ op[p].before = ZeroState) =>
            LET id == op[p].id
                mode == op[p].mode
            IN  /\ ~op[p].err
                /\ mode = ModeRead =>
                      /\ recStates[id] = [R |-> 1, W |-> 0]
                      /\ recLocks[id] = [w |-> 0, r |-> 1]
                      /\ op[p].res = ModeRead
                /\ mode = ModeReadWrite =>
                      /\ recStates[id] = [R |-> 1, W |-> 1]
                      /\ recLocks[id] = [w |-> 1, r |-> 0]
                      /\ op[p].res = ModeReadWrite
                /\ mode = ModeWrite =>
                      /\ recStates[id] = [R |-> 0, W |-> 1]
                      /\ recLocks[id] = [w |-> 1, r |-> 0]
                      /\ op[p].res = ModeWrite
LockIDLeavesOthers ==
    \A p \in Procs :
        op[p].name = "LockID" =>
            \A j \in Keys \ {op[p].id} :
                /\ (j \in DOMAIN recStates') = (j \in DOMAIN recStates)
                /\ StateOf(j)' = StateOf(j)
LockIDUpdatesByMode == []LockIDOnUnheld /\ [][LockIDLeavesOthers]_vars

\* a ModeReadWrite call on an unheld id has returned while another id is held
LockIDReturnedOnUnheld ==
    /\ pc[1] = "LockID.ret"
    /\ op[1].before = ZeroState
    /\ op[1].mode = ModeReadWrite
    /\ \E j \in DOMAIN recStates \ {op[1].id} : recStates[j] # ZeroState

\* C14: an UnlockID of an id that has a lock and a state and is fully
\* released returns an error and changes neither the counts nor the mutex of
\* the id (nothing is released), whatever mode was recorded.
FullyReleased(id) ==
    /\ id \in DOMAIN recLocks
    /\ id \in DOMAIN recStates
    /\ recLocks[id] = [w |-> 0, r |-> 0]
OverReleaseStep(p) ==
    (pc[p] = "UnlockID.check" /\ FullyReleased(op[p].id)) =>
        /\ pc'[p] = "UnlockID.ret"
        /\ op'[p].err
        /\ UNCHANGED <<recStates, recLocks, recModes, fatal>>
OverReleaseReported == [][\A p \in Procs : OverReleaseStep(p)]_vars

\* the second UnlockID after a ModeReadWrite hold has returned its error
OverReleaseReturned ==
    /\ pc[1] = "UnlockID.ret"
    /\ op[1].err
    /\ op[1].mode = ModeReadWrite
    /\ FullyReleased(op[1].id)

\* C15: UnlockID of an id without a lock or without a state returns nil, and
\* no step of it changes the lock, state or mode table or stops the process.
AbsentId(id) == id \notin DOMAIN recLocks \/ id \notin DOMAIN recStates
UnlockAbsentIdStep(p) ==
    (op[p].name = "UnlockID" /\ AbsentId(op[p].id)) =>
        /\ UNCHANGED <<recLocks, recStates, recModes, fatal>>
        /\ pc[p] = "UnlockID.state" => (pc'[p] = "UnlockID.ret" /\ ~op'[p].err)
Excluded(p) ==
    /\ pc[p] = "LockID.acq"
    /\ IF op[p].mode = ModeRead
       THEN ~CanRLock(recLocks[op[p].id])
       ELSE ~CanLock(recLocks[op[p].id])
ReacquireReturns == \A p \in Procs : Excluded(p) => ENABLED RecStep(p, Keys)

\* C17: no step of a GetLock call changes the lock, state or mode table.
GetLockReadOnly ==
    [][\A p \in Procs : op[p].name = "GetLock" =>
            UNCHANGED <<recLocks, recStates, recModes>>]_vars

\* ---------------------------------------------- collection claims, part 2
\* C11: with concurrent Creates of one key that all use the same compression
\* setting and all complete, a Get that reads the record returns the payload
\* of the Create that took the write lock of the path last.
FinalOf(id) == RecName(id, ExtOf(useGzip))
ReadsFinal(p) ==
    /\ pc[p] = (IF useGzip THEN "Get.readGzip" ELSE "Get.readJson")
    /\ pc'[p] # pc[p]
    /\ FinalOf(op[p].id) \in DOMAIN order
LastLockerWins ==
    [][\A p \in Procs : ReadsFinal(p) =>
            /\ op'[p].data = order[FinalOf(op[p].id)]
            /\ op'[p].err = "none"]_vars

\* a goroutine that created the key reads back the payload of the other
\* goroutine's Create, which took the lock after it
ReadOtherWritersPayload ==
    \E p, q \in Procs :
        /\ p # q
        /\ pc[p] = "Get.ret" /\ op[p].err = "none"
        /\ op[p].created # <<>> /\ op[p].data # op[p].created
        /\ pc[q] = "Create.ret" /\ op[q].id = op[p].id /\ op[q].data = op[p].data
        /\ order[FinalOf(op[p].id)] = op[q].data

\* C18: a Get by a goroutine that has the collection to itself returns what
\* GetOutcome says; it fails with not-found exactly when neither variant of
\* the id exists, and then no path lock is left; no step of a Get changes a
\* file.
NeitherVariant(id) == ~Exists(RecName(id, Ext)) /\ ~Exists(RecName(id, GZipExt))
GetNotFoundIff ==
    \A p \in Procs :
        pc[p] = "Get.ret" =>
            /\ op[p].err = GetOutcome(files, op[p].id).err
            /\ op[p].err = "none" => op[p].data = GetOutcome(files, op[p].id).data
            /\ (op[p].err = "notexist") = NeitherVariant(op[p].id)
            /\ op[p].err = "notexist" => (locks = <<>> /\ heap = <<>> /\ le[p] = NoEntry)
GetChangesNoFile ==
    \A p \in Procs : (op[p].name = "Get" /\ pc'[p] # pc[p]) => UNCHANGED files
GetNotFound == []GetNotFoundIff /\ [][GetChangesNoFile]_vars

\* a Get has failed with not-found in a collection that holds another record
GetNotFoundReturned ==
    /\ pc[1] = "Get.ret"
    /\ op[1].err = "notexist"
    /\ files # <<>>

\* a Delete by a goroutine that has the collection to itself does what
\* DeleteOutcome says of the directory it began in: the same error and the
\* same files left
DeleteConforms ==
    \A p \in Procs :
        pc[p] = "Delete.ret" =>
            LET before == [n \in DOMAIN files \cup op[p].had |->
                             IF n \in DOMAIN files THEN files[n] ELSE <<>>]
                d == DeleteOutcome(before, op[p].id)
            IN  /\ op[p].err = d.err
                /\ files = d.files

\* C19: in every state the collection reaches with no call in flight, a
\* Delete of an id without a variant file returns not-found and changes no
\* file, and after a Delete that returns success the Get of the id fails with
\* not-found.
Quiescent == \A p \in Procs : pc[p] = "idle"
DeleteRemovesRecord ==
    Quiescent =>
        \A id \in Keys :
            LET d == DeleteOutcome(files, id)
            IN  /\ NeitherVariant(id) => (d.err = "notexist" /\ d.files = files)
                /\ d.err = "none" => GetOutcome(d.files, id).err = "notexist"

\* C20: a Get that reads while both variants of its id exist returns the
\* content of the json file.
BothVariants(id) == Exists(RecName(id, Ext)) /\ Exists(RecName(id, GZipExt))
JsonPrecedence ==
    [][\A p \in Procs :
          (pc[p] = "Get.readJson" /\ pc'[p] # pc[p] /\ BothVariants(op[p].id)) =>
              /\ op'[p].data = files[RecName(op[p].id, Ext)]
              /\ op'[p].err = "none"
              /\ ret'[p] = "Get.ret"]_vars

\* a Get has returned the json content while the gzip file holds another
\* payload
BothVariantsRead ==
    \E p \in Procs :
        /\ pc[p] = "Get.ret"
        /\ BothVariants(op[p].id)
        /\ op[p].data = files[RecName(op[p].id, Ext)]
        /\ UnGzip(files[RecName(op[p].id, GZipExt)]).data # op[p].data

\* ---------------------------------------------- collection claims, part 3
\* C21: no step of a Create takes the last variant file of its key away: if
\* a variant of the key exists before the step, one exists after it.
VariantIn(f, id) == RecName(id, Ext) \in DOMAIN f \/ RecName(id, GZipExt) \in DOMAIN f
CreateKeepsAVariant ==
    [][\A p \in Procs :
          (op[p].name = "Create" /\ pc'[p] # pc[p] /\ VariantIn(files, op[p].id)) =>
              VariantIn(files', op[p].id)]_vars

\* C22: once every call has returned, no key has both its json and its gzip
\* file, whatever Creates ran concurrently and with whatever settings.
OneVariantWhenQuiet == Quiescent => \A id \in Keys : ~BothVariants(id)

\* C23: the rename of a writeAtomic call is taken only by a call whose temp
\* file holds all its bytes, was synced and is closed, and that has not
\* failed; a call that has failed has only its deferred Remove left.
RenameStep(p) ==
    /\ pc[p] = "wa.rename"
    /\ wa[p].tmp \in DOMAIN files
    /\ wa[p].tmp \notin DOMAIN files'

RenameComesLast ==
    /\ [][\A p \in Procs :
            RenameStep(p) =>
                /\ files[wa[p].tmp] = wa[p].data
                /\ wa[p].synced /\ ~wa[p].open /\ ~wa[p].err
                /\ files'[wa[p].final] = wa[p].data]_vars
    /\ [](\A p \in Procs : (InWriteAtomic(p) /\ wa[p].err) => pc[p] = "wa.defer")

\* one call has renamed its synced and closed temp file onto the final path
\* while another has failed with only part of its bytes written
RenamedBesideFailedWrite ==
    \E p, q \in Procs :
        /\ pc[p] = "wa.defer" /\ ~wa[p].err /\ wa[p].synced
        /\ files[wa[p].final] = wa[p].data
        /\ pc[q] = "wa.defer" /\ wa[q].err /\ ~wa[q].synced
        /\ wa[q].tmp \in DOMAIN files /\ Len(files[wa[q].tmp]) < Len(wa[q].data)

\* Len, lines 188-200: the number of directory entries that are not
\* directories; a collection directory holds files only
CollectionLen(f) == Cardinality(DOMAIN f)

\* C24: GetAllByName never collects an entry under the name of a temp file,
\* and whenever no call is in flight the directory holds record files only, so
\* that Len() counts the records.
TempFilesUnlisted ==
    /\ \A p \in Procs :
          op[p].name = "GetAllByName" => \A k \in DOMAIN op[p].res : ~k.tmp
    /\ Quiescent => CollectionLen(files) = Cardinality(DOMAIN Records(files))

\* --------------------------------------------- lock manager claims, part 2
\* C25: with every Unlock paired with a Lock, every caller that holds or
\* awaits the mutex of a path does so on the entry the table has for that
\* path: the path is in the table, the entry a caller has in hand is the
\* table's, an entry outside the table is neither locked nor awaited, and no
\* step takes a path out of the table while a caller holds or awaits it.
Engaged(p, path) ==
    /\ owns[p] /\ lpath[p] = path
    /\ pc[p] \in {"Lock.acq", "held", "Unlock.lookup", "Unlock.rel"}

InTable(a) == \E path \in DOMAIN locks : locks[path] = a

getOrCreateLockEnter(p) ==
    /\ ~fatal
    /\ pc[p] = "Lock.get"
    /\ locksMu = NoProc
    /\ locksMu' = p
    /\ UNCHANGED <<collVars, order, ioVars, locks, heap, fatal, stray, pc, ret, callVars>>

\* getOrCreateLock that takes the path mutex before it leaves locksMu
getOrCreateLockBodyLocks(p) ==
    /\ ~fatal
    /\ pc[p] = "Lock.get"
    /\ locksMu = p
    /\ LET g == getOrCreateLock(locks, heap, lpath[p])
       IN  /\ locks' = g.locks
           /\ heap' = g.heap
           /\ le' = [le EXCEPT ![p] = g.le]
    /\ pc' = [pc EXCEPT ![p] = "Lock.acq"]
    /\ UNCHANGED <<collVars, order, ioVars, locksMu, fatal, stray, ret, lpath, ltype, owns>>

\* getOrCreateLock, lines 62-69: the lookup or the creation, and the deferred
\* locksMu.Unlock() at the return
getOrCreateLockBody(p) ==
    /\ ~fatal
    /\ pc[p] = "Lock.get"
    /\ locksMu = p
    /\ LET g == getOrCreateLock(locks, heap, lpath[p])
       IN  /\ locks' = g.locks
           /\ heap' = g.heap
           /\ le' = [le EXCEPT ![p] = g.le]
    /\ pc' = [pc EXCEPT ![p] = "Lock.acq"]
    /\ locksMu' = NoProc
    /\ UNCHANGED <<collVars, order, ioVars, fatal, stray, ret, lpath, ltype, owns>>

\* Unlock, line 35: locksMu.Lock()
UnlockLookupEnter(p) ==
    /\ ~fatal
    /\ pc[p] = "Unlock.lookup"
    /\ locksMu = NoProc
    /\ locksMu' = p
    /\ UNCHANGED <<collVars, order, ioVars, locks, heap, fatal, stray, pc, ret, callVars>>

\* Unlock, lines 36-40: le, ok := locks[path]; locksMu.Unlock(); absent: return
UnlockLookupBody(p) ==
    /\ ~fatal
    /\ pc[p] = "Unlock.lookup"
    /\ locksMu = p
    /\ IF lpath[p] \in DOMAIN locks
       THEN /\ le' = [le EXCEPT ![p] = locks[lpath[p]]]
            /\ pc' = [pc EXCEPT ![p] = "Unlock.rel"]
            /\ stray' = (stray \/ ~owns[p])
            /\ UNCHANGED <<lpath, ltype, owns>>
       ELSE /\ pc' = [pc EXCEPT ![p] = ret[p]]
            /\ Return(p)
            /\ UNCHANGED <<le, stray>>
    /\ locksMu' = NoProc
    /\ UNCHANGED <<collVars, order, ioVars, locks, heap, fatal, ret>>

\* Unlock, line 52: locksMu.Lock()
UnlockDecrementEnter(p) ==
    /\ ~fatal
    /\ pc[p] = "Unlock.dec"
    /\ locksMu = NoProc
    /\ locksMu' = p
    /\ UNCHANGED <<collVars, order, ioVars, locks, heap, fatal, stray, pc, ret, callVars>>

\* Unlock, lines 53-57: le.refs--, the delete at 0, locksMu.Unlock()
UnlockDecrementBody(p) ==
    /\ ~fatal
    /\ pc[p] = "Unlock.dec"
    /\ locksMu = p
    /\ LET h2 == [heap EXCEPT ![le[p]].refs = @ - 1]
           l2 == UnlockTable(locks, heap, lpath[p], le[p])
           le2 == [le EXCEPT ![p] = NoEntry]
       IN  /\ locks' = l2
           /\ le' = le2
           /\ heap' = Collect(h2, l2, le2)
    /\ pc' = [pc EXCEPT ![p] = ret[p]]
    /\ Return(p)
    /\ locksMu' = NoProc
    /\ UNCHANGED <<collVars, order, ioVars, fatal, stray, ret>>

NextTable ==
    \E p \in Procs :
        \/ CallLock(p)
        \/ getOrCreateLockEnter(p)
        \/ getOrCreateLockBody(p)
        \/ LockAcquire(p)
        \/ CallUnlock(p)
        \/ CallStrayUnlock(p)
        \/ UnlockLookupEnter(p)
        \/ UnlockLookupBody(p)
        \/ UnlockRelease(p)
        \/ UnlockDecrementEnter(p)
        \/ UnlockDecrementBody(p)

SpecTable == InitLock /\ [][NextTable]_vars

\* C26: a caller that awaits a path mutex, or holds one between its Lock and
\* its Unlock, is not inside locksMu; the caller inside locksMu can always
\* finish its section, and a caller that wants locksMu while it is free can
\* always take it, whatever path locks are held or awaited.
WantsTable(p) == pc[p] \in {"Lock.get", "Unlock.lookup", "Unlock.dec"}

TableMutexShortLived ==
    ~fatal =>
        \A p \in Procs :
            /\ pc[p] \in {"Lock.acq", "held", "Unlock.rel"} => locksMu # p
            /\ locksMu = p =>
                  /\ WantsTable(p)
                  /\ ENABLED (getOrCreateLockBody(p) \/ UnlockLookupBody(p) \/ UnlockDecrementBody(p))
            /\ (WantsTable(p) /\ locksMu = NoProc) =>
                  ENABLED (getOrCreateLockEnter(p) \/ UnlockLookupEnter(p) \/ UnlockDecrementEnter(p))

\* a caller is inside locksMu to look up a path whose mutex another caller
\* holds exclusively
TableSectionBesideHeldPath ==
    \E p, q \in Procs :
        /\ locksMu = p /\ pc[p] = "Lock.get"
        /\ pc[q] = "held" /\ IsExclusive(ltype[q]) /\ lpath[q] = lpath[p]
        /\ ~fatal

\* ------------------------------------------- collection operations, fairly
\* every step a goroutine takes by itself, once its call is made
OwnStep(p) ==
    \/ CreateGzipFails(p)
    \/ CreateRemoveOther(p)
    \/ CreateUnlock(p)
    \/ GetReadJson(p)
    \/ GetLockGzip(p)
    \/ GetReadGzip(p)
    \/ DeleteStep(p)
    \/ LockGet(p)
    \/ UnlockLookup(p)
    \/ UnlockRelease(p)
    \/ UnlockDecrement(p)
    \/ WriteAtomicCreateTemp(p)
    \/ WriteAtomicWrite(p)
    \/ WriteAtomicSync(p)
    \/ WriteAtomicClose(p)
    \/ WriteAtomicRename(p)
    \/ WriteAtomicFails(p)
    \/ WriteAtomicDefer(p)
    \/ OpReturn(p)

\* the Go scheduler runs every runnable goroutine; sync.RWMutex hands a
\* released lock to a goroutine that waits for it (a waiting writer stops new
\* readers, and a mutex in starvation mode goes to the longest waiter)
Fairness ==
    \A p \in Procs : WF_vars(OwnStep(p)) /\ SF_vars(LockAcquire(p))

\* one payload and the collection's own compression setting
LivePayloads == {<<1, 2>>}
NextLive ==
    \E p \in Procs :
        \/ CallCreateWith(p, OrderKeys, LivePayloads, {"none"})
        \/ CallGetOn(p, OrderKeys)
        \/ CallDeleteOn(p, OrderKeys)
        \/ OwnStep(p)
        \/ LockAcquire(p)

SpecLive == InitColl /\ [][NextLive]_vars /\ Fairness

\* C27: every Lock call of a Get, Create or Delete returns, and every Get,
\* Create and Delete that was called returns to its caller.
InLock(p) == pc[p] \in {"Lock.get", "Lock.acq"}

OperationsTerminate ==
    \A p \in Procs :
        /\ InLock(p) ~> ~InLock(p)
        /\ (pc[p] # "idle") ~> (pc[p] = "idle")

\* a Create waits for the write lock of a path that a Delete holds
CreateWaitsForDelete ==
    \E p, q \in Procs :
        /\ op[p].name = "Create" /\ pc[p] = "Lock.acq"
        /\ op[q].name = "Delete" /\ pc[q] # "Lock.acq" /\ lpath[q] = lpath[p]
        /\ lpath[p] \in DOMAIN locks /\ heap[locks[lpath[p]]].w = 1

\* C28: in every state of concurrent Gets, Creates and Deletes, the entry of
\* a path counts the calls between their Lock and the end of their Unlock,
\* its mutex is locked as those calls locked it and not yet unlocked it, no
\* Unlock fails, a call that has returned has no lock, and with every call
\* returned the lock table is empty.
Referring(p, path) == owns[p] /\ lpath[p] = path /\ pc[p] # "Lock.get"
Holding(p, path) == Referring(p, path) /\ pc[p] \notin {"Lock.acq", "Unlock.dec"}

LocksBalanced ==
    /\ ~fatal
    /\ \A path \in JsonPaths :
          LET refs == Cardinality({p \in Procs : Referring(p, path)})
          IN  IF refs = 0 THEN path \notin DOMAIN locks
              ELSE /\ path \in DOMAIN locks
                   /\ heap[locks[path]].refs = refs
                   /\ heap[locks[path]].w =
                         Cardinality({p \in Procs : Holding(p, path) /\ IsExclusive(ltype[p])})
                   /\ heap[locks[path]].r =
                         Cardinality({p \in Procs : Holding(p, path) /\ ~IsExclusive(ltype[p])})
    /\ \A p \in Procs :
          pc[p] \in {"idle", "Create.ret", "Get.ret", "Delete.ret"} => ~owns[p]
    /\ Quiescent => (locks = <<>> /\ heap = <<>>)

\* a Delete that found nothing and a Create whose write failed have both
\* returned, and the lock table is empty
FailedCallsReturnedUnlocked ==
    \E p, q \in Procs :
        /\ pc[p] = "Delete.ret" /\ op[p].err = "notexist"
        /\ pc[q] = "Create.ret" /\ op[q].err = TRUE
        /\ locks = <<>>

\* ------------------------------- one goroutine's Creates, failures included
\* Create as CallCreate, its frame noting what Get(id) returns at the call
CallCreateNoted(p) ==
    /\ pc[p] = "idle"
    /\ \E id \in Keys, data \in Payloads, opts \in OptionSet :
          LET gz == EffectiveGzip(useGzip, opts)
          IN  /\ op' = [op EXCEPT ![p] = [CreateFrame(id, data, opts, gz, FALSE)
                                            EXCEPT !.before = GetOutcome(files, id)]]
              /\ lpath' = [lpath EXCEPT ![p] = RecName(id, ExtOf(gz))]
    /\ ltype' = [ltype EXCEPT ![p] = LOCK_WRITE]
    /\ owns' = [owns EXCEPT ![p] = TRUE]
    /\ pc' = [pc EXCEPT ![p] = "Lock.get"]
    /\ ret' = [ret EXCEPT ![p] = "Create.remove"]
    /\ UNCHANGED <<collVars, order, lockVars, le, files, wa>>

\* Create as CreateGzipFails, its frame noting what Get(id) returns at the call
CreateGzipFailsNoted(p) ==
    /\ pc[p] = "idle"
    /\ \E id \in Keys, data \in Payloads, opts \in OptionSet :
          /\ EffectiveGzip(useGzip, opts)
          /\ op' = [op EXCEPT ![p] = [CreateFrame(id, data, opts, TRUE, TRUE)
                                        EXCEPT !.before = GetOutcome(files, id)]]
    /\ pc' = [pc EXCEPT ![p] = "Create.ret"]
    /\ UNCHANGED <<collVars, order, lockVars, callVars, ret, files, wa>>

NextFail ==
    \/ CallCreateNoted(1)
    \/ CreateGzipFailsNoted(1)
    \/ CreateRemoveOther(1)
    \/ CreateUnlock(1)
    \/ InnerStep(1)
    \/ OpReturn(1)

SpecFail == InitColl /\ [][NextFail]_vars

\* C29: when a Create has returned an error, a Get of its id returns what a
\* Get of that id returned when the Create was called.
FailedCreateLosesNothing ==
    \A p \in Procs :
        (pc[p] = "Create.ret" /\ op[p].err = TRUE) =>
            GetOutcome(files, op[p].id) = op[p].before

\* ------------------------------------------ record tracker claims, part 2
\* IsLock, lines 485-500
IsLock(id) ==
    IF id \notin DOMAIN recLocks \/ id \notin DOMAIN recStates THEN FALSE
    ELSE IF ModeOf(id) = ModeRead THEN recStates[id].R > 0
    ELSE IF ModeOf(id) = ModeReadWrite THEN recStates[id].R > 0 /\ recStates[id].W > 0
    ELSE recStates[id].W > 0

\* C30: whenever every goroutine is outside the tracker or blocked in LockID
\* on the mutex of its id, W of an id is the number of exclusive holds
\* granted on its mutex, R is the number of shared holds granted plus that of
\* the ReadWrite holds granted (which is 0 or the exclusive hold), and an id
\* nobody holds has IsLock false and R = W = 0.
Settled == \A p \in Procs : pc[p] = "idle" \/ Excluded(p)

CountsEqualHolds ==
    (Settled /\ ~fatal) =>
        \A id \in DOMAIN recLocks :
            /\ StateOf(id).W = recLocks[id].w
            /\ StateOf(id).R >= recLocks[id].r
            /\ StateOf(id).R <= recLocks[id].r + recLocks[id].w
            /\ (recLocks[id].w = 0 /\ recLocks[id].r = 0) =>
                  (~IsLock(id) /\ StateOf(id).R = 0 /\ StateOf(id).W = 0)

\* ------------------------------------- callers that unlock what they locked
\* a caller whose LockID(id, m) has returned calls UnlockID(id), line 416;
\* held is the mode its LockID returned
CallUnlockIDHolding(p) ==
    /\ ~fatal
    /\ pc[p] = "LockID.ret"
    /\ op' = [op EXCEPT ![p] = [UnlockIDFrame(op[p].id) EXCEPT !.held = op[p].res]]
    /\ pc' = [pc EXCEPT ![p] = "UnlockID.mode"]
    /\ UNCHANGED <<nonRecVars, fatal, recModes, recLocks, recStates>>

\* the caller has seen the result of its UnlockID
UnlockIDReturn(p) ==
    /\ pc[p] = "UnlockID.ret"
    /\ RecReturn(p)

NextHold ==
    \E p \in Procs :
        \/ CallLockID(p, SharedIds)
        \/ LockIDGetRecordLock(p)
        \/ LockIDGetOrCreateState(p)
        \/ LockIDSetMode(p)
        \/ LockIDSetModeRace(p)
        \/ LockIDLoad(p)
        \/ LockIDStore(p)
        \/ LockIDAcquire(p)
        \/ CallUnlockIDHolding(p)
        \/ UnlockIDReadMode(p)
        \/ UnlockIDGetLock(p)
        \/ UnlockIDGetState(p)
        \/ UnlockIDCheck(p)
        \/ UnlockIDLoad(p)
        \/ UnlockIDStore(p)
        \/ UnlockIDRelease(p)
        \/ UnlockIDReturn(p)

SpecHold == InitLock /\ [][NextHold]_vars

\* C31: an UnlockID by the caller that holds the lock of its id acts in the
\* mode that caller's LockID was granted: the mode it has read selects the
\* release and the counts of that hold, and it reports no error.
UnlockIDMatchesHold ==
    \A p \in Procs :
        (op[p].name = "UnlockID" /\ op[p].held # NoMode /\ pc[p] # "UnlockID.mode") =>
            /\ Granted(op[p].mode) = op[p].held
            /\ ~op[p].err

\* ------------------------------------------ listings of a directory at rest
\* GetAllByName called while no other call is in flight ...
CallGetAllByNameAtRest(p) ==
    /\ Quiescent
    /\ CallGetAllByName(p)

\* ... and no Create called while a listing runs: the directory a listing
\* reads does not change under it
CallCreateBesideNoListing(p) ==
    /\ \A q \in Procs : pc[q] \notin {"List.entry", "List.ret"}
    /\ CallCreateOn(p, OrderKeys, OptionSet)

NextList ==
    \E p \in Procs :
        \/ CallCreateBesideNoListing(p)
        \/ CreateRemoveOther(p)
        \/ CreateUnlock(p)
        \/ CallGetAllByNameAtRest(p)
        \/ GetAllByNameStep(p)
        \/ LockGet(p)
        \/ LockAcquire(p)
        \/ UnlockLookup(p)
        \/ UnlockRelease(p)
        \/ UnlockDecrement(p)
        \/ WriteAtomicCreateTemp(p)
        \/ WriteAtomicWrite(p)
        \/ WriteAtomicSync(p)
        \/ WriteAtomicClose(p)
        \/ WriteAtomicRename(p)
        \/ WriteAtomicDefer(p)
        \/ OpReturn(p)

SpecList == InitColl /\ [][NextList]_vars

\* C32: when GetAllByName has returned from a directory nothing else was
\* changing, the value it has under each key is what Get of that key returns
\* from the same directory.
ListingAgreesWithGet ==
    \A p \in Procs :
        (pc[p] = "List.ret" /\ op[p].name = "GetAllByName") =>
            \A k \in DOMAIN op[p].res :
                /\ ~k.tmp
                /\ GetOutcome(files, k.id).err = "none"
                /\ op[p].res[k] = GetOutcome(files, k.id).data

====
